---------------------------- MODULE Spec2Model ----------------------------
(***************************************************************************)
(* A model of boltql (src/unnamed/part_000): tables with named secondary   *)
(* indices kept in buckets of an ordered, transactional key-value store.   *)
(*                                                                         *)
(* Field values are integers: NULL is Go's nil, the positive integers are  *)
(* integer fields, LONGSTR is a byte string of MaxKeySize bytes (the store *)
(* refuses it in a key), AUTOINCREMENT is the auto-increment marker and    *)
(* BADVALUE is a value of a type the scalar codec does not support.        *)
(* Encoded keys and values are sequences of small numbers ("bytes") that   *)
(* the store compares lexicographically.                                   *)
(***************************************************************************)
EXTENDS Integers, Sequences, FiniteSets, TLC

VARIABLES
    buckets,        \* the committed store: bucket name -> [seq, kv]
    table,          \* the caller's *Table handle: [valid, name, indices]
    tx,             \* the read-write transaction of a Put or Delete in progress
    codec,          \* a record taken through marshalKeyValue and unmarshalKeyValue
    nilDefault,     \* where typedbuffer.Encode places nil: TRUE first, FALSE last
    last,           \* the last completed call and the error it returned
    issued,         \* the record numbers the Put of src/boltql.go has returned,
                    \* each with the record it was returned for
    second          \* a second *Table handle on the same store

vars == <<buckets, table, tx, codec, nilDefault, last, issued, second>>

----------------------------------------------------------------------------
(* Bounds of the model *)

\* cap on the table's sequence generator
MaxSeq == 3

\* cap on the number of entries of an index key space
MaxEntries == 2

----------------------------------------------------------------------------
(* Field values *)

NULL == 0

AUTOINCREMENT == -1

BADVALUE == -2

LONGSTR == -3

\* integer field values a caller supplies
Ints == {1, 2}

\* the field positions of a record of the table
Fields == {0, 1}

NumFields == Cardinality(Fields)

\* errors
OK == "nil"

NO_TABLE == "bucket not found"

NO_INDEX == "bucket not found"

ALREADY_EXISTS == "bucket already exists"

SCHEMA_CORRUPTED == "schema corrupted"

NO_KEY == "key not found"

UNSUPPORTED == "unsupported type"

KEY_TOO_LARGE == "key too large"

KEY_REQUIRED == "key required"

DECODE_ERROR == "corrupted buffer"

PANIC == "panic: index out of range"

\* a nil byte slice
NIL == <<>>

----------------------------------------------------------------------------
(* The scalar codec (github.com/gobs/typedbuffer), an external collaborator: *)
(* order-preserving, tagged encoding of a list of values.                    *)

TagNilFirst == 0

TagFalse == 1

TagTrue == 2

TagInt == 3

TagBytes == 4

TagArray == 5

TagNilLast == 6

\* largest key the store accepts, in bytes
MaxKeySize == 4

RECURSIVE Zeros(_)
Zeros(n) == IF n = 0 THEN <<>> ELSE <<0>> \o Zeros(n - 1)

Supported(v) == v >= 0 \/ v = LONGSTR

\* EncodeValue giving nil the lowest tag whatever the placement asked for
EncodeValueNilLowest(nilFirst, v) ==
    IF v = NULL THEN <<TagNilFirst>>
    ELSE IF v = LONGSTR THEN <<TagBytes, MaxKeySize>> \o Zeros(MaxKeySize)
    ELSE <<TagInt, v>>

EncodeValue(nilFirst, v) ==
    IF v = NULL THEN <<IF nilFirst THEN TagNilFirst ELSE TagNilLast>>
    ELSE IF v = LONGSTR THEN <<TagBytes, MaxKeySize>> \o Zeros(MaxKeySize)
    ELSE <<TagInt, v>>

RECURSIVE EncodeList(_, _)
EncodeList(nilFirst, vals) ==
    IF Len(vals) = 0 THEN <<>>
    ELSE EncodeValue(nilFirst, Head(vals)) \o EncodeList(nilFirst, Tail(vals))

\* typedbuffer.EncodeNils(nilFirst, values...)
EncodeNils(nilFirst, vals) ==
    IF \E i \in 1..Len(vals) : ~Supported(vals[i])
    THEN [err |-> UNSUPPORTED, b |-> NIL]
    ELSE [err |-> OK, b |-> EncodeList(nilFirst, vals)]

\* typedbuffer.Encode(values...): EncodeNils with nils first
Encode(vals) == EncodeNils(nilDefault, vals)

\* typedbuffer.DecodeAll(false, b): the list of values b encodes
RECURSIVE DecodeAll(_)
DecodeAll(b) ==
    LET cons(v, r) == [err |-> r.err, vals |-> IF r.err = OK THEN <<v>> \o r.vals ELSE <<>>]
    IN IF Len(b) = 0 THEN [err |-> OK, vals |-> <<>>]
       ELSE IF b[1] = TagNilFirst \/ b[1] = TagNilLast
       THEN cons(NULL, DecodeAll(SubSeq(b, 2, Len(b))))
       ELSE IF b[1] = TagInt /\ Len(b) >= 2
       THEN cons(b[2], DecodeAll(SubSeq(b, 3, Len(b))))
       ELSE IF b[1] = TagBytes /\ Len(b) >= 2 /\ b[2] = MaxKeySize /\ Len(b) >= 2 + b[2]
       THEN cons(LONGSTR, DecodeAll(SubSeq(b, 3 + b[2], Len(b))))
       ELSE [err |-> DECODE_ERROR, vals |-> <<>>]

----------------------------------------------------------------------------
(* The ordered store (github.com/boltdb/bolt), an external collaborator:   *)
(* a bucket is [seq, kv], kv a set of <<key, value>> pairs with unique     *)
(* keys, and a cursor walks the keys in bytes.Compare order.               *)

\* bytes.Compare(a, b) < 0
RECURSIVE BytesLess(_, _)
BytesLess(a, b) ==
    IF Len(b) = 0 THEN FALSE
    ELSE IF Len(a) = 0 THEN TRUE
    ELSE IF a[1] # b[1] THEN a[1] < b[1]
    ELSE BytesLess(Tail(a), Tail(b))

BytesLeq(a, b) == a = b \/ BytesLess(a, b)

EmptyBucket == [seq |-> 0, kv |-> {}]

Keys(kv) == {e[1] : e \in kv}

\* the cursor's answer when it has no entry to give: (nil, nil)
NoEntry == <<NIL, NIL>>

EntryOf(kv, k) == CHOOSE e \in kv : e[1] = k

MinKey(ks) == CHOOSE k \in ks : \A j \in ks : BytesLeq(k, j)

MaxKey(ks) == CHOOSE k \in ks : \A j \in ks : BytesLeq(j, k)

\* the entry with the smallest (largest) of the keys ks, or no entry
LowestOf(kv, ks) == IF ks = {} THEN NoEntry ELSE EntryOf(kv, MinKey(ks))

HighestOf(kv, ks) == IF ks = {} THEN NoEntry ELSE EntryOf(kv, MaxKey(ks))

\* Cursor.First / Cursor.Last
First(kv) == LowestOf(kv, Keys(kv))

Last(kv) == HighestOf(kv, Keys(kv))

\* Cursor.Seek(key): the entry with the smallest key >= key
Seek(kv, key) == LowestOf(kv, {k \in Keys(kv) : BytesLeq(key, k)})

\* Cursor.Next / Cursor.Prev with the cursor on key k
NextEntry(kv, k) == LowestOf(kv, {j \in Keys(kv) : BytesLess(k, j)})

PrevEntry(kv, k) == HighestOf(kv, {j \in Keys(kv) : BytesLess(j, k)})

\* Cursor.Prev right after Seek(key) did not land on key: the cursor stands on
\* the smallest key > key, or past the last entry
PrevAfterSeek(kv, key) == HighestOf(kv, {j \in Keys(kv) : BytesLess(j, key)})

\* Bucket.Put adding the pair beside an entry already stored under the key
BucketPutBeside(b, key, value) ==
    IF Len(key) = 0 THEN [err |-> KEY_REQUIRED, b |-> b]
    ELSE IF Len(key) > MaxKeySize THEN [err |-> KEY_TOO_LARGE, b |-> b]
    ELSE [err |-> OK, b |-> [b EXCEPT !.kv = @ \cup {<<key, value>>}]]

\* Bucket.Put(key, value): insert or replace
BucketPut(b, key, value) ==
    IF Len(key) = 0 THEN [err |-> KEY_REQUIRED, b |-> b]
    ELSE IF Len(key) > MaxKeySize THEN [err |-> KEY_TOO_LARGE, b |-> b]
    ELSE [err |-> OK,
          b |-> [b EXCEPT !.kv = {e \in b.kv : e[1] # key} \cup {<<key, value>>}]]

\* Bucket.Delete(key): a key that is not there is no error
BucketDelete(b, key) == [b EXCEPT !.kv = {e \in b.kv : e[1] # key}]


----------------------------------------------------------------------------
(* Key spaces and index definitions *)

indices(name) == name \o "_idx"

schema(name) == name

\* sort.Sort(ip): by field position (the positions of an index are distinct)
RECURSIVE InsertByField(_, _)
InsertByField(ip, e) ==
    IF Len(ip) = 0 THEN <<e>>
    ELSE IF e.field < Head(ip).field THEN <<e>> \o ip
    ELSE <<Head(ip)>> \o InsertByField(Tail(ip), e)

RECURSIVE SortByField(_)
SortByField(ip) ==
    IF Len(ip) = 0 THEN <<>>
    ELSE InsertByField(SortByField(SubSeq(ip, 1, Len(ip) - 1)), ip[Len(ip)])

\* makeIndexPos numbering the slots of the key after the sort
makeIndexPosSlotsSorted(fields) ==
    LET number(ip) == [i \in 1..Len(ip) |-> [field |-> ip[i].field, pos |-> i - 1]]
    IN number(SortByField([i \in 1..Len(fields) |-> [field |-> fields[i], pos |-> i - 1]]))

\* lines 108-118
makeIndexPos(fields) ==
    SortByField([i \in 1..Len(fields) |-> [field |-> fields[i], pos |-> i - 1]])

\* the zero value of indexinfo, what t.indices[index] gives for an unknown name
ZeroInfo == [nilFirst |-> FALSE, iplist |-> <<>>]

InfoOf(t, index) ==
    IF index \in DOMAIN t.indices THEN t.indices[index] ELSE ZeroInfo

NoTable == [valid |-> FALSE, name |-> "", indices |-> [n \in {} |-> ZeroInfo]]

----------------------------------------------------------------------------
(* Key codec *)

\* make([]interface{}, n): a list of n nil values
RECURSIVE MakeNils(_)
MakeNils(n) == IF n = 0 THEN <<>> ELSE <<NULL>> \o MakeNils(n - 1)

RECURSIVE marshalLoop(_, _, _, _, _, _)
marshalLoop(info, fields, fi, kk, vkey, vval) ==
    IF fi >= Len(fields) THEN [vkey |-> vkey, vval |-> vval]
    ELSE IF kk < Len(info.iplist) /\ fi = info.iplist[kk + 1].field
    THEN marshalLoop(info, fields, fi + 1, kk + 1,
                     [vkey EXCEPT ![info.iplist[kk + 1].pos + 1] = fields[fi + 1]], vval)
    ELSE marshalLoop(info, fields, fi + 1, kk, vkey, Append(vval, fields[fi + 1]))

marshalKeyValue(info, fields) ==
    IF Len(info.iplist) = 0 THEN [err |-> OK, key |-> NIL, value |-> NIL]
    ELSE LET result(k, v) ==
                 IF k.err # OK THEN [err |-> k.err, key |-> NIL, value |-> NIL]
                 ELSE [err |-> v.err, key |-> k.b, value |-> v.b]
             encode(p) ==
                 result(EncodeNils(info.nilFirst, p.vkey),
                        IF Len(p.vval) > 0 THEN EncodeNils(info.nilFirst, p.vval)
                        ELSE [err |-> OK, b |-> NIL])
         IN encode(marshalLoop(info, fields, 0, 0, MakeNils(Len(info.iplist)), <<>>))

RECURSIVE unmarshalLoop(_, _, _, _, _, _, _)
unmarshalLoop(info, vkey, vval, n, i, kk, fields) ==
    IF i >= n THEN [err |-> OK, fields |-> fields]
    ELSE IF kk < Len(info.iplist) /\ i = info.iplist[kk + 1].field
    THEN IF info.iplist[kk + 1].pos >= Len(vkey)
         THEN [err |-> PANIC, fields |-> <<>>]
         ELSE unmarshalLoop(info, vkey, vval, n, i + 1, kk + 1,
                            Append(fields, vkey[info.iplist[kk + 1].pos + 1]))
    ELSE IF Len(vval) = 0
         THEN [err |-> PANIC, fields |-> <<>>]
         ELSE unmarshalLoop(info, vkey, Tail(vval), n, i + 1, kk,
                            Append(fields, Head(vval)))

\* unmarshalKeyValue returning the key's values followed by the value's, whatever
\* the positions of the index
unmarshalKeyValueKeyFirst(info, k, v) ==
    LET fill(dk, dv) ==
            IF dk.err # OK THEN [err |-> dk.err, fields |-> <<>>]
            ELSE IF dv.err # OK THEN [err |-> dv.err, fields |-> <<>>]
            ELSE [err |-> OK, fields |-> dk.vals \o dv.vals]
    IN fill(DecodeAll(k), DecodeAll(v))

unmarshalKeyValue(info, k, v) ==
    LET fill(dk, dv) ==
            IF dk.err # OK THEN [err |-> dk.err, fields |-> <<>>]
            ELSE IF dv.err # OK THEN [err |-> dv.err, fields |-> <<>>]
            ELSE unmarshalLoop(info, dk.vals, dv.vals,
                               Len(dk.vals) + Len(dv.vals), 0, 0, <<>>)
    IN fill(DecodeAll(k), DecodeAll(v))


----------------------------------------------------------------------------
(* Schema entries: typedbuffer.Encode(nilFirst) ++ typedbuffer.Encode(fields) *)

EncodeSchema(nilFirst, fields) ==
    <<IF nilFirst THEN TagTrue ELSE TagFalse>> \o <<TagArray, Len(fields)>> \o fields

\* DecodeSchema taking every index to place nil last
DecodeSchemaNilsLast(v) ==
    IF /\ Len(v) >= 3
       /\ v[1] \in {TagFalse, TagTrue}
       /\ v[2] = TagArray
       /\ Len(v) = 3 + v[3]
    THEN [err |-> OK, nilFirst |-> FALSE, fields |-> SubSeq(v, 4, Len(v))]
    ELSE [err |-> SCHEMA_CORRUPTED, nilFirst |-> FALSE, fields |-> <<>>]

\* typedbuffer.Decode followed by typedbuffer.DecodeUintArray
DecodeSchema(v) ==
    IF /\ Len(v) >= 3
       /\ v[1] \in {TagFalse, TagTrue}
       /\ v[2] = TagArray
       /\ Len(v) = 3 + v[3]
    THEN [err |-> OK, nilFirst |-> (v[1] = TagTrue), fields |-> SubSeq(v, 4, Len(v))]
    ELSE [err |-> SCHEMA_CORRUPTED, nilFirst |-> FALSE, fields |-> <<>>]

\* the index names a caller uses, in byte order
NameOrder == <<"index1", "index2">>

IndexNames == {NameOrder[i] : i \in 1..Len(NameOrder)}

TableNames == {"table"}

\* db.Update(fn): the changes fn made are committed when fn returns nil and
\* rolled back when it returns an error
Update(bk, r) == IF r.err = OK THEN r.bk ELSE bk

WithBucket(bk, name, b) ==
    [n \in DOMAIN bk \cup {name} |-> IF n = name THEN b ELSE bk[n]]

----------------------------------------------------------------------------
(* DataStore.CreateTable, DataStore.GetTable, Table.CreateIndex *)

\* CreateTable putting an empty table in the place of one that exists
CreateTableTxReplaces(bk, name) ==
    [err |-> OK, bk |-> WithBucket(bk, schema(name), EmptyBucket)]

\* lines 138-145: the function CreateTable hands to db.Update
CreateTableTx(bk, name) ==
    IF schema(name) \in DOMAIN bk THEN [err |-> ALREADY_EXISTS, bk |-> bk]
    ELSE [err |-> OK, bk |-> WithBucket(bk, schema(name), EmptyBucket)]

\* b.ForEach over the schema entries, in key order; the callback's error ends
\* the iteration and is dropped by GetTable
RECURSIVE LoadIndices(_, _, _)
LoadIndices(kv, names, acc) ==
    IF Len(names) = 0 THEN acc
    ELSE IF Head(names) \notin Keys(kv) THEN LoadIndices(kv, Tail(names), acc)
    ELSE LET load(d) ==
                 IF d.err # OK THEN acc
                 ELSE LoadIndices(kv, Tail(names),
                          [n \in DOMAIN acc \cup {Head(names)} |->
                              IF n = Head(names)
                              THEN [nilFirst |-> d.nilFirst, iplist |-> makeIndexPos(d.fields)]
                              ELSE acc[n]])
         IN load(DecodeSchema(EntryOf(kv, Head(names))[2]))

GetTableView(bk, name) ==
    IF schema(name) \notin DOMAIN bk THEN [err |-> NO_TABLE, indices |-> NoTable.indices]
    ELSE [err |-> OK,
          indices |-> LoadIndices(bk[schema(name)].kv, NameOrder, NoTable.indices)]

\* CreateIndex entering the records the table's other indices hold in the new index
CreateIndexTxBackfill(bk, t, index, nilFirst, fields) ==
    IF schema(t.name) \notin DOMAIN bk THEN [err |-> NO_TABLE, bk |-> bk]
    ELSE LET held == UNION {{unmarshalKeyValue(t.indices[n], e[1], e[2]).fields :
                                e \in bk[indices(n)].kv} :
                            n \in {x \in DOMAIN t.indices : indices(x) \in DOMAIN bk}}
             entry(m) == <<m.key, m.value>>
             filled == [seq |-> 0,
                        kv |-> {entry(marshalKeyValue([nilFirst |-> nilFirst,
                                                       iplist |-> makeIndexPos(fields)], rec)) :
                                  rec \in held}]
             create(bk1) ==
                 IF indices(index) \in DOMAIN bk1 THEN [err |-> ALREADY_EXISTS, bk |-> bk1]
                 ELSE [err |-> OK, bk |-> WithBucket(bk1, indices(index), filled)]
         IN create([bk EXCEPT ![schema(t.name)].kv =
                       {e \in @ : e[1] # index}
                           \cup {<<index, EncodeSchema(nilFirst, fields)>>}])

\* lines 208-231: the function CreateIndex hands to db.Update
\* CreateIndex taking the bucket of the name as it is when the name is in use
CreateIndexTxSharesBucket(bk, t, index, nilFirst, fields) ==
    IF schema(t.name) \notin DOMAIN bk THEN [err |-> NO_TABLE, bk |-> bk]
    ELSE LET create(bk1) ==
                 IF indices(index) \in DOMAIN bk1 THEN [err |-> OK, bk |-> bk1]
                 ELSE [err |-> OK, bk |-> WithBucket(bk1, indices(index), EmptyBucket)]
         IN create([bk EXCEPT ![schema(t.name)].kv =
                       {e \in @ : e[1] # index}
                           \cup {<<index, EncodeSchema(nilFirst, fields)>>}])

CreateIndexTx(bk, t, index, nilFirst, fields) ==
    IF schema(t.name) \notin DOMAIN bk THEN [err |-> NO_TABLE, bk |-> bk]
    ELSE LET create(bk1) ==
                 IF indices(index) \in DOMAIN bk1 THEN [err |-> ALREADY_EXISTS, bk |-> bk1]
                 ELSE [err |-> OK, bk |-> WithBucket(bk1, indices(index), EmptyBucket)]
         IN create([bk EXCEPT ![schema(t.name)].kv =
                       {e \in @ : e[1] # index}
                           \cup {<<index, EncodeSchema(nilFirst, fields)>>}])

----------------------------------------------------------------------------
(* Table.Put *)

\* the number of AUTOINCREMENT markers among the first n fields
RECURSIVE Markers(_, _)
Markers(rec, n) ==
    IF n = 0 THEN 0
    ELSE Markers(rec, n - 1) + (IF rec[n] = AUTOINCREMENT THEN 1 ELSE 0)

\* lines 338-345: every marker takes the next value of the sequence
AutoFill(rec, seq) ==
    [i \in 1..Len(rec) |-> IF rec[i] = AUTOINCREMENT THEN seq + Markers(rec, i) ELSE rec[i]]

\* PutIndex leaving an entry that is already stored under the key as it is
PutIndexKeepOld(bk, t, fields, index) ==
    LET store(p) ==
            IF p.err # OK THEN [err |-> p.err, bk |-> bk, written |-> 0]
            ELSE [err |-> OK, bk |-> [bk EXCEPT ![indices(index)] = p.b], written |-> 1]
        write(m) ==
            IF m.err # OK THEN [err |-> m.err, bk |-> bk, written |-> 0]
            ELSE IF m.key = NIL \/ m.key \in Keys(bk[indices(index)].kv)
            THEN [err |-> OK, bk |-> bk, written |-> 0]
            ELSE store(BucketPut(bk[indices(index)], m.key, m.value))
    IN IF indices(index) \notin DOMAIN bk THEN [err |-> NO_TABLE, bk |-> bk, written |-> 0]
       ELSE write(marshalKeyValue(t.indices[index], fields))

\* lines 347-364: one index of the handle
PutIndex(bk, t, fields, index) ==
    LET store(p) ==
            IF p.err # OK THEN [err |-> p.err, bk |-> bk, written |-> 0]
            ELSE [err |-> OK, bk |-> [bk EXCEPT ![indices(index)] = p.b], written |-> 1]
        write(m) ==
            IF m.err # OK THEN [err |-> m.err, bk |-> bk, written |-> 0]
            ELSE IF m.key = NIL THEN [err |-> OK, bk |-> bk, written |-> 0]
            ELSE store(BucketPut(bk[indices(index)], m.key, m.value))
    IN IF indices(index) \notin DOMAIN bk THEN [err |-> NO_TABLE, bk |-> bk, written |-> 0]
       ELSE write(marshalKeyValue(t.indices[index], fields))

\* PutLoop returning after the first index it visits
PutLoopOnce(bk, t, fields, order, written) ==
    LET done(p) ==
            [err |-> p.err, bk |-> p.bk, fields |-> fields, written |-> written + p.written]
    IN IF Len(order) = 0
       THEN [err |-> OK, bk |-> bk, fields |-> fields, written |-> written]
       ELSE done(PutIndex(bk, t, fields, Head(order)))

\* lines 346-365: the indices of the handle, visited in the order `order`
RECURSIVE PutLoop(_, _, _, _, _)
PutLoop(bk, t, fields, order, written) ==
    LET more(p) ==
            IF p.err # OK
            THEN [err |-> p.err, bk |-> p.bk, fields |-> fields, written |-> written]
            ELSE PutLoop(p.bk, t, fields, Tail(order), written + p.written)
    IN IF Len(order) = 0
       THEN [err |-> OK, bk |-> bk, fields |-> fields, written |-> written]
       ELSE more(PutIndex(bk, t, fields, Head(order)))

\* PutBegin taking one value of the sequence for all the markers of the record
PutBeginOneValue(bk, t, rec) ==
    IF t.name \notin DOMAIN bk THEN [err |-> NO_TABLE, bk |-> bk, fields |-> rec]
    ELSE [err |-> OK,
          bk |-> [bk EXCEPT ![t.name].seq = @ + (IF Markers(rec, Len(rec)) > 0 THEN 1 ELSE 0)],
          fields |-> [i \in 1..Len(rec) |->
                        IF rec[i] = AUTOINCREMENT THEN bk[t.name].seq + 1 ELSE rec[i]]]

\* lines 331-345: the table's bucket and the record's fields
PutBegin(bk, t, rec) ==
    IF t.name \notin DOMAIN bk THEN [err |-> NO_TABLE, bk |-> bk, fields |-> rec]
    ELSE [err |-> OK,
          bk |-> [bk EXCEPT ![t.name].seq = @ + Markers(rec, Len(rec))],
          fields |-> AutoFill(rec, bk[t.name].seq)]

\* Put writing to every index the stored schema declares, not to those of the handle
PutTxOfSchema(bk, t, rec, order) ==
    LET declared == [t EXCEPT !.indices = GetTableView(bk, t.name).indices]
        loop(b) ==
            IF b.err # OK
            THEN [err |-> b.err, bk |-> b.bk, fields |-> b.fields, written |-> 0]
            ELSE PutLoop(b.bk, declared, b.fields,
                         SelectSeq(NameOrder, LAMBDA n : n \in DOMAIN declared.indices), 0)
    IN loop(PutBegin(bk, t, rec))

\* lines 330-368: the function Put hands to db.Update
PutTx(bk, t, rec, order) ==
    LET loop(b) ==
            IF b.err # OK
            THEN [err |-> b.err, bk |-> b.bk, fields |-> b.fields, written |-> 0]
            ELSE PutLoop(b.bk, t, b.fields, order, 0)
    IN loop(PutBegin(bk, t, rec))

\* Put whose writes stay in the store when the function it runs returns an error
PutResultKeepsWrites(bk, t, rec, order) == PutTx(bk, t, rec, order)

\* Put as a whole: bk is what the store holds when it returns
PutResult(bk, t, rec, order) ==
    LET end(r) == [r EXCEPT !.bk = Update(bk, r)]
    IN end(PutTx(bk, t, rec, order))

----------------------------------------------------------------------------
(* Table.Get *)

\* Get decoding whatever entry the seek lands on
GetViewNoCompare(bk, t, index, key) ==
    LET found(e) ==
            IF e[1] = NIL THEN [err |-> NO_KEY, fields |-> <<>>]
            ELSE unmarshalKeyValue(InfoOf(t, index), e[1], e[2])
        seek(m) ==
            IF m.err # OK THEN [err |-> m.err, fields |-> <<>>]
            ELSE IF m.key = NIL THEN [err |-> NO_KEY, fields |-> <<>>]
            ELSE found(Seek(bk[indices(index)].kv, m.key))
    IN IF indices(index) \notin DOMAIN bk THEN [err |-> NO_INDEX, fields |-> <<>>]
       ELSE seek(marshalKeyValue(InfoOf(t, index), key))

GetView(bk, t, index, key) ==
    LET found(sk, e) ==
            IF sk # e[1] THEN [err |-> NO_KEY, fields |-> <<>>]
            ELSE unmarshalKeyValue(InfoOf(t, index), e[1], e[2])
        seek(m) ==
            IF m.err # OK THEN [err |-> m.err, fields |-> <<>>]
            ELSE IF m.key = NIL THEN [err |-> NO_KEY, fields |-> <<>>]
            ELSE found(m.key, Seek(bk[indices(index)].kv, m.key))
    IN IF indices(index) \notin DOMAIN bk THEN [err |-> NO_INDEX, fields |-> <<>>]
       ELSE seek(marshalKeyValue(InfoOf(t, index), key))

----------------------------------------------------------------------------
(* Table.Delete *)

\* lines 467-470: the key fields of index info, in declared order
DeleteKey(info, fields) ==
    [p \in 1..Len(info.iplist) |->
        fields[info.iplist[CHOOSE j \in 1..Len(info.iplist) :
                               info.iplist[j].pos = p - 1].field + 1]]

\* lines 455-479: one index i of the handle
DeleteIndex(bk, t, index, fields, i) ==
    LET delete(dkey) ==
            IF dkey.err # OK THEN [err |-> dkey.err, bk |-> bk]
            ELSE [err |-> OK, bk |-> [bk EXCEPT ![indices(i)] = BucketDelete(@, dkey.b)]]
    IN IF i = index \/ indices(i) \notin DOMAIN bk THEN [err |-> OK, bk |-> bk]
       ELSE delete(Encode(DeleteKey(t.indices[i], fields)))

\* lines 454-480: the indices of the handle, visited in the order `order`
RECURSIVE DeleteLoop(_, _, _, _, _)
DeleteLoop(bk, t, index, fields, order) ==
    LET more(d) ==
            IF d.err # OK THEN d
            ELSE DeleteLoop(d.bk, t, index, fields, Tail(order))
    IN IF Len(order) = 0 THEN [err |-> OK, bk |-> bk]
       ELSE more(DeleteIndex(bk, t, index, fields, Head(order)))

\* DeleteBegin deleting the entry the seek lands on, be its key the one sought or not
DeleteBeginNoCompare(bk, t, index, key) ==
    LET decoded(e, u) ==
            [err |-> u.err,
             bk |-> [bk EXCEPT ![indices(index)] = BucketDelete(@, e[1])],
             found |-> TRUE, fields |-> u.fields]
        found(sk, e) ==
            IF e[1] = NIL THEN [err |-> OK, bk |-> bk, found |-> FALSE, fields |-> <<>>]
            ELSE decoded(e, unmarshalKeyValue(InfoOf(t, index), e[1], e[2]))
        seek(m) ==
            IF m.err # OK THEN [err |-> m.err, bk |-> bk, found |-> FALSE, fields |-> <<>>]
            ELSE IF m.key = NIL
            THEN [err |-> NO_KEY, bk |-> bk, found |-> FALSE, fields |-> <<>>]
            ELSE found(m.key, Seek(bk[indices(index)].kv, m.key))
    IN IF indices(index) \notin DOMAIN bk
       THEN [err |-> NO_INDEX, bk |-> bk, found |-> FALSE, fields |-> <<>>]
       ELSE seek(marshalKeyValue(InfoOf(t, index), key))

\* lines 422-452: the entry sought in the index, deleted and decoded on an exact
\* match; found tells whether the keys matched
DeleteBegin(bk, t, index, key) ==
    LET decoded(e, u) ==
            [err |-> u.err,
             bk |-> [bk EXCEPT ![indices(index)] = BucketDelete(@, e[1])],
             found |-> TRUE, fields |-> u.fields]
        found(sk, e) ==
            IF sk # e[1] THEN [err |-> OK, bk |-> bk, found |-> FALSE, fields |-> <<>>]
            ELSE decoded(e, unmarshalKeyValue(InfoOf(t, index), e[1], e[2]))
        seek(m) ==
            IF m.err # OK THEN [err |-> m.err, bk |-> bk, found |-> FALSE, fields |-> <<>>]
            ELSE IF m.key = NIL
            THEN [err |-> NO_KEY, bk |-> bk, found |-> FALSE, fields |-> <<>>]
            ELSE found(m.key, Seek(bk[indices(index)].kv, m.key))
    IN IF indices(index) \notin DOMAIN bk
       THEN [err |-> NO_INDEX, bk |-> bk, found |-> FALSE, fields |-> <<>>]
       ELSE seek(marshalKeyValue(InfoOf(t, index), key))

\* lines 421-484: the function Delete hands to db.Update
DeleteTx(bk, t, index, key, order) ==
    LET loop(b) ==
            IF b.err # OK \/ ~b.found THEN [err |-> b.err, bk |-> b.bk]
            ELSE DeleteLoop(b.bk, t, index, b.fields, order)
    IN loop(DeleteBegin(bk, t, index, key))

\* Delete as a whole: bk is what the store holds when it returns
DeleteResult(bk, t, index, key, order) ==
    LET end(r) == [r EXCEPT !.bk = Update(bk, r)]
    IN end(DeleteTx(bk, t, index, key, order))

----------------------------------------------------------------------------
(* Table.Scan, Table.ForEach *)

\* no start record (a nil DataRecord)
NoStart == <<>>

\* line 549, callback(res, err): the callback is called after the check of
\* line 543, so the error it is handed with each record of out is nil
CallbackErrors(out) == [i \in 1..Len(out) |-> OK]

\* ScanLoop advancing with Next whatever the direction asked for
RECURSIVE ScanLoopAlwaysNext(_, _, _, _, _, _)
ScanLoopAlwaysNext(kv, info, asc, e, out, stop) ==
    LET deliver(u) ==
            IF u.err # OK THEN [err |-> u.err, out |-> out, errs |-> CallbackErrors(out)]
            ELSE IF Len(out) + 1 = stop
            THEN [err |-> OK, out |-> Append(out, u.fields),
                  errs |-> CallbackErrors(Append(out, u.fields))]
            ELSE ScanLoopAlwaysNext(kv, info, asc, NextEntry(kv, e[1]),
                                    Append(out, u.fields), stop)
    IN IF e[1] = NIL THEN [err |-> OK, out |-> out, errs |-> CallbackErrors(out)]
       ELSE deliver(unmarshalKeyValue(info, e[1], e[2]))

\* ScanLoop going on whatever the callback returns
RECURSIVE ScanLoopIgnoresStop(_, _, _, _, _, _)
ScanLoopIgnoresStop(kv, info, asc, e, out, stop) ==
    LET deliver(u) ==
            IF u.err # OK THEN [err |-> u.err, out |-> out, errs |-> CallbackErrors(out)]
            ELSE ScanLoopIgnoresStop(kv, info, asc,
                          IF asc THEN NextEntry(kv, e[1]) ELSE PrevEntry(kv, e[1]),
                          Append(out, u.fields), stop)
    IN IF e[1] = NIL THEN [err |-> OK, out |-> out, errs |-> CallbackErrors(out)]
       ELSE deliver(unmarshalKeyValue(info, e[1], e[2]))

\* lines 533-553: the callback returns false at its stop-th call (never when stop = 0)
RECURSIVE ScanLoop(_, _, _, _, _, _)
ScanLoop(kv, info, asc, e, out, stop) ==
    LET deliver(u) ==
            IF u.err # OK THEN [err |-> u.err, out |-> out, errs |-> CallbackErrors(out)]
            ELSE IF Len(out) + 1 = stop
            THEN [err |-> OK, out |-> Append(out, u.fields),
                  errs |-> CallbackErrors(Append(out, u.fields))]
            ELSE ScanLoop(kv, info, asc,
                          IF asc THEN NextEntry(kv, e[1]) ELSE PrevEntry(kv, e[1]),
                          Append(out, u.fields), stop)
    IN IF e[1] = NIL THEN [err |-> OK, out |-> out, errs |-> CallbackErrors(out)]
       ELSE deliver(unmarshalKeyValue(info, e[1], e[2]))

\* ScanStart taking the start record for no start record
ScanStartAtEnd(kv, info, asc, start) ==
    [err |-> OK, e |-> IF asc THEN First(kv) ELSE Last(kv)]

\* ScanStart keeping the entry the seek lands on when the Scan descends
ScanStartNoStepBack(kv, info, asc, start) ==
    LET orEnd(e) == IF e[1] # NIL THEN e ELSE IF asc THEN First(kv) ELSE Last(kv)
        seek(m) ==
            [err |-> m.err,
             e |-> orEnd(IF m.key = NIL THEN NoEntry ELSE Seek(kv, m.key))]
    IN seek(IF start = NoStart THEN [err |-> OK, key |-> NIL, value |-> NIL]
            ELSE marshalKeyValue(info, start))

\* lines 506-531: where the cursor starts
ScanStart(kv, info, asc, start) ==
    LET orEnd(e) == IF e[1] # NIL THEN e ELSE IF asc THEN First(kv) ELSE Last(kv)
        back(sk, s) == IF ~asc /\ sk # s[1] THEN PrevAfterSeek(kv, sk) ELSE s
        seek(m) ==
            [err |-> m.err,
             e |-> orEnd(IF m.key = NIL THEN NoEntry ELSE back(m.key, Seek(kv, m.key)))]
    IN seek(IF start = NoStart THEN [err |-> OK, key |-> NIL, value |-> NIL]
            ELSE marshalKeyValue(info, start))

\* out is the sequence of records handed to the callback, errs the errors
\* handed to it with them
ScanView(bk, t, index, asc, start, stop) ==
    LET loop(kv, st) ==
            IF st.err # OK THEN [err |-> st.err, out |-> <<>>, errs |-> <<>>]
            ELSE ScanLoop(kv, InfoOf(t, index), asc, st.e, <<>>, stop)
    IN IF indices(index) \notin DOMAIN bk THEN [err |-> NO_INDEX, out |-> <<>>, errs |-> <<>>]
       ELSE loop(bk[indices(index)].kv,
                 ScanStart(bk[indices(index)].kv, InfoOf(t, index), asc, start))

\* b.ForEach(callback): every entry, in key order
RECURSIVE EntriesFrom(_, _)
EntriesFrom(kv, e) ==
    IF e[1] = NIL THEN <<>> ELSE <<e>> \o EntriesFrom(kv, NextEntry(kv, e[1]))

RECURSIVE SchemaEntries(_, _)
SchemaEntries(kv, names) ==
    IF Len(names) = 0 THEN <<>>
    ELSE (IF Head(names) \in Keys(kv) THEN <<EntryOf(kv, Head(names))>> ELSE <<>>)
         \o SchemaEntries(kv, Tail(names))

ForEachView(bk, t, index) ==
    LET each(name) ==
            IF name \notin DOMAIN bk THEN [err |-> NO_INDEX, out |-> <<>>]
            ELSE IF index = "" THEN [err |-> OK, out |-> SchemaEntries(bk[name].kv, NameOrder)]
            ELSE [err |-> OK, out |-> EntriesFrom(bk[name].kv, First(bk[name].kv))]
    IN each(IF index = "" THEN t.name ELSE indices(index))

----------------------------------------------------------------------------
(* What callers pass *)

\* the definition a caller declares for each index name
IndexDefs ==
    [index1 |-> [nilFirst |-> TRUE, fields |-> <<0>>],
     index2 |-> [nilFirst |-> FALSE, fields |-> <<1, 0>>]]

\* every record of the table's arity over the values a caller supplies
Records == [1..NumFields -> {NULL} \cup Ints]

\* records handed to Put
PutRecords ==
    {<<1, 1>>, <<2, 1>>, <<1, 2>>, <<NULL, 1>>, <<1, NULL>>,
     <<AUTOINCREMENT, 1>>, <<AUTOINCREMENT, AUTOINCREMENT>>,
     <<1, LONGSTR>>, <<BADVALUE, 1>>}

\* key records handed to Delete
KeyRecords == {<<1, 1>>, <<2, 1>>, <<1, 2>>, <<NULL, 1>>, <<1, NULL>>}

\* key records handed to Get, start records handed to Scan
Probes == {<<1, 1>>, <<NULL, 1>>}

\* the call at which a Scan callback returns false (0: never)
StopAt == {0, 1}

\* the orders in which a range over the map t.indices may visit it
Orders(S) ==
    {o \in [1..Cardinality(S) -> S] : \A i, j \in 1..Cardinality(S) : i # j => o[i] # o[j]}

\* src/boltql.go:289, var key uint64: the value of the variable Put returns
UnassignedKey == 0

\* a completed call: its arguments (index, asc, rec, stop), what it returned
\* (err, fields, out), the entries Put had written in its transaction when it
\* returned, and the store as it was when the call began; errs are the errors
\* a Scan handed to its callback, name the table name CreateTable or GetTable
\* was given and handle the table it returned (NoTable: nil), number the record
\* number the Put of src/boltql.go returned or its Delete was given, through
\* the handle the call was made through
Call(op, index, asc, rec, stop, err, fields, out, written, before) ==
    [op |-> op, index |-> index, asc |-> asc, rec |-> rec, stop |-> stop,
     err |-> err, fields |-> fields, out |-> out, written |-> written,
     before |-> before, errs |-> <<>>, name |-> "", handle |-> NoTable,
     number |-> UnassignedKey, through |-> "table"]

NoBuckets == [n \in {} |-> EmptyBucket]

\* no call has completed since the caller last looked
NoCall == Call("none", "", TRUE, <<>>, 0, OK, <<>>, <<>>, 0, NoBuckets)

Idle == [phase |-> "idle"]

NoCodec == [stage |-> "none"]

WithinBounds(bk) ==
    \A n \in DOMAIN bk : Cardinality(bk[n].kv) <= MaxEntries /\ bk[n].seq <= MaxSeq

----------------------------------------------------------------------------
(* The calls, each in its own transaction *)

Init ==
    /\ buckets = NoBuckets
    /\ table = NoTable
    /\ tx = Idle
    /\ issued = <<>>
    /\ second = NoTable
    /\ codec = NoCodec
    /\ nilDefault \in BOOLEAN
    /\ last = NoCall

CreateTable(name) ==
    /\ last = NoCall
    /\ \E r \in {CreateTableTx(buckets, name)} :
          /\ buckets' = Update(buckets, r)
          /\ table' = IF r.err = OK
                      THEN [valid |-> TRUE, name |-> name, indices |-> NoTable.indices]
                      ELSE table
          /\ last' = [Call("CreateTable", "", TRUE, <<>>, 0, r.err, <<>>, <<>>, 0, buckets)
                         EXCEPT !.name = name,
                                !.handle =
                            IF r.err = OK
                            THEN [valid |-> TRUE, name |-> name,
                                  indices |-> NoTable.indices]
                            ELSE NoTable]
    /\ UNCHANGED <<tx, codec, nilDefault, issued, second>>

GetTable(name) ==
    /\ last = NoCall
    /\ \E r \in {GetTableView(buckets, name)} :
          /\ table' = IF r.err = OK
                      THEN [valid |-> TRUE, name |-> name, indices |-> r.indices]
                      ELSE table
          /\ last' = [Call("GetTable", "", TRUE, <<>>, 0, r.err, <<>>, <<>>, 0, buckets)
                         EXCEPT !.name = name,
                                !.handle =
                            IF r.err = OK
                            THEN [valid |-> TRUE, name |-> name, indices |-> r.indices]
                            ELSE NoTable]
    /\ UNCHANGED <<buckets, tx, codec, nilDefault, issued, second>>

CreateIndex(index, nilFirst, fields) ==
    /\ last = NoCall
    /\ table.valid
    /\ \E r \in {CreateIndexTx(buckets, table, index, nilFirst, fields)} :
          /\ buckets' = Update(buckets, r)
          /\ table' = IF r.err = OK
                      THEN [table EXCEPT !.indices =
                              [n \in DOMAIN table.indices \cup {index} |->
                                  IF n = index
                                  THEN [nilFirst |-> nilFirst, iplist |-> makeIndexPos(fields)]
                                  ELSE table.indices[n]]]
                      ELSE table
          /\ last' = Call("CreateIndex", index, TRUE, fields, 0, r.err, <<>>, <<>>, 0, buckets)
    /\ UNCHANGED <<tx, codec, nilDefault, issued, second>>

Put(rec) ==
    /\ last = NoCall
    /\ table.valid
    /\ \E order \in Orders(DOMAIN table.indices) :
          \E r \in {PutResult(buckets, table, rec, order)} :
             /\ WithinBounds(r.bk)
             /\ buckets' = r.bk
             /\ last' = Call("Put", "", TRUE, rec, 0, r.err, r.fields, <<>>, r.written, buckets)
    /\ UNCHANGED <<table, tx, codec, nilDefault, issued, second>>

Get(index, key) ==
    /\ last = NoCall
    /\ table.valid
    /\ \E r \in {GetView(buckets, table, index, key)} :
          last' = Call("Get", index, TRUE, key, 0, r.err, r.fields, <<>>, 0, buckets)
    /\ UNCHANGED <<buckets, table, tx, codec, nilDefault, issued, second>>

Delete(index, key) ==
    /\ last = NoCall
    /\ table.valid
    /\ \E order \in Orders(DOMAIN table.indices) :
          \E r \in {DeleteResult(buckets, table, index, key, order)} :
             /\ buckets' = r.bk
             /\ last' = Call("Delete", index, TRUE, key, 0, r.err, <<>>, <<>>, 0, buckets)
    /\ UNCHANGED <<table, tx, codec, nilDefault, issued, second>>

Scan(index, asc, start, stop) ==
    /\ last = NoCall
    /\ table.valid
    /\ \E r \in {ScanView(buckets, table, index, asc, start, stop)} :
          last' = [Call("Scan", index, asc, start, stop, r.err, <<>>, r.out, 0, buckets)
                      EXCEPT !.errs = r.errs]
    /\ UNCHANGED <<buckets, table, tx, codec, nilDefault, issued, second>>

ForEach(index) ==
    /\ last = NoCall
    /\ table.valid
    /\ \E r \in {ForEachView(buckets, table, index)} :
          last' = Call("ForEach", index, TRUE, <<>>, 0, r.err, <<>>, r.out, 0, buckets)
    /\ UNCHANGED <<buckets, table, tx, codec, nilDefault, issued, second>>

\* the caller has looked at what the call returned and goes on to its next call
Return ==
    /\ last # NoCall
    /\ last' = NoCall
    /\ UNCHANGED <<buckets, table, tx, codec, nilDefault, issued, second>>

Next ==
    \/ \E name \in TableNames : CreateTable(name)
    \/ \E name \in TableNames : GetTable(name)
    \/ \E index \in IndexNames :
          CreateIndex(index, IndexDefs[index].nilFirst, IndexDefs[index].fields)
    \/ \E rec \in PutRecords : Put(rec)
    \/ \E index \in IndexNames, key \in KeyRecords : Get(index, key)
    \/ \E index \in IndexNames, key \in KeyRecords : Delete(index, key)
    \/ \E index \in IndexNames, asc \in BOOLEAN, start \in {NoStart} \cup Probes,
          stop \in StopAt : Scan(index, asc, start, stop)
    \/ \E index \in IndexNames \cup {""} : ForEach(index)
    \/ Return

Spec == Init /\ [][Next]_vars

----------------------------------------------------------------------------
(* What the claims speak of *)

Range(q) == {q[i] : i \in 1..Len(q)}

\* the indices of the handle that have at least one field
KeyedIndices == {index \in DOMAIN table.indices : Len(table.indices[index].iplist) > 0}

\* the records an ascending Scan of the whole index delivers from store bk
Delivered(bk, index) == ScanView(bk, table, index, TRUE, NoStart, 0).out

\* the records the entries of the index decode to in store bk
Decoded(bk, index) ==
    {unmarshalKeyValue(table.indices[index], e[1], e[2]).fields : e \in bk[indices(index)].kv}

\* r's values in the fields of the index, in the order the index declares them
IndexTuple(index, r) ==
    [p \in 1..Len(IndexDefs[index].fields) |-> r[IndexDefs[index].fields[p] + 1]]

\* the positions of rec that hold the marker
MarkerPositions(rec) == {i \in 1..Len(rec) : rec[i] = AUTOINCREMENT}

\* the order of field values: integers by value, byte strings after integers,
\* nil before or after everything as the index asks
ValueLess(nilFirst, a, b) ==
    IF a = b THEN FALSE
    ELSE IF a = NULL THEN nilFirst
    ELSE IF b = NULL THEN ~nilFirst
    ELSE IF a = LONGSTR THEN FALSE
    ELSE IF b = LONGSTR THEN TRUE
    ELSE a < b

\* lexicographic order of tuples of the same length
TupleLeq(nilFirst, x, y) ==
    \/ x = y
    \/ \E i \in 1..Len(x) :
          /\ \A j \in 1..(i - 1) : x[j] = y[j]
          /\ ValueLess(nilFirst, x[i], y[i])

----------------------------------------------------------------------------
(* C1 *)

\* C1: after a successful Put(r), every marker of r is replaced by a value of the
\* sequence, the other fields are as given, and Get through every index of the
\* handle that has at least one field, with r's fields as the key, returns r
\* with those same substituted values.
C1_PutReadableThroughEveryIndex ==
    (last.op = "Put" /\ last.err = OK) =>
        /\ \A i \in 1..Len(last.rec) :
              IF last.rec[i] = AUTOINCREMENT THEN last.fields[i] > 0
              ELSE last.fields[i] = last.rec[i]
        /\ \A index \in KeyedIndices :
              GetView(buckets, table, index, last.fields)
                  = [err |-> OK, fields |-> last.fields]

\* a record with a marker has just been put through a handle with two indices
C1_Witness ==
    /\ last.op = "Put"
    /\ last.err = OK
    /\ MarkerPositions(last.rec) # {}
    /\ KeyedIndices = IndexNames

----------------------------------------------------------------------------
(* C2 *)

\* the record the key of the last call matched, exactly, before the call
MatchedBefore == GetView(last.before, table, last.index, last.rec)

\* C2: after a successful Delete through an index whose key exactly matched a
\* stored record r, no index of the table holds an entry that decodes to r.
C2_DeleteRemovesFromEveryIndex ==
    (last.op = "Delete" /\ last.err = OK /\ MatchedBefore.err = OK) =>
        \A index \in KeyedIndices :
            MatchedBefore.fields \notin Decoded(buckets, index)

----------------------------------------------------------------------------
(* C3 *)

\* C3 as claimed: a successful Put of a record the index does not deliver yet
\* makes an ascending Scan of the index deliver one record more.
C3_EveryPutAddsARecord ==
    (last.op = "Put" /\ last.err = OK) =>
        \A index \in KeyedIndices :
            last.fields \notin Range(Delivered(last.before, index)) =>
                Len(Delivered(buckets, index)) = Len(Delivered(last.before, index)) + 1

\* C3, amended: after a successful Put(r) an ascending Scan of an index delivers
\* r and every record it delivered before whose values in the index's fields
\* differ from r's, each once; a record with r's values in all of the index's
\* fields is replaced by r.
C3_PutReplacesEqualKey ==
    (last.op = "Put" /\ last.err = OK) =>
        \A index \in KeyedIndices :
            /\ Range(Delivered(buckets, index))
                 = {x \in Range(Delivered(last.before, index)) :
                        IndexTuple(index, x) # IndexTuple(index, last.fields)}
                   \cup {last.fields}
            /\ Len(Delivered(buckets, index))
                 = Cardinality(Range(Delivered(buckets, index)))

\* a Put has just replaced another record with the same values in an index's fields
C3_Witness ==
    /\ last.op = "Put"
    /\ last.err = OK
    /\ \E index \in KeyedIndices :
          \E x \in Range(Delivered(last.before, index)) :
             /\ x # last.fields
             /\ IndexTuple(index, x) = IndexTuple(index, last.fields)
             /\ x \notin Range(Delivered(buckets, index))

----------------------------------------------------------------------------
(* C4 *)

\* the key the last call sought in its index
SoughtKey == marshalKeyValue(InfoOf(table, last.index), last.rec)

\* C4: Delete through an index with a key that no stored entry byte-equals
\* reports NO_KEY.
C4_DeleteMissingReportsNoKey ==
    (/\ last.op = "Delete"
     /\ indices(last.index) \in DOMAIN last.before
     /\ SoughtKey.err = OK
     /\ SoughtKey.key \notin Keys(last.before[indices(last.index)].kv))
        => last.err = NO_KEY

----------------------------------------------------------------------------
(* C5 *)

\* C5: Get through an index returns NO_KEY when no stored key of the index
\* byte-equals the encoded key, and on an exact match the record that entry
\* encodes (encoding the returned record for the index gives back the entry).
C5_GetExactMatchOnly ==
    (/\ last.op = "Get"
     /\ indices(last.index) \in DOMAIN buckets
     /\ SoughtKey.err = OK)
        => IF SoughtKey.key \in Keys(buckets[indices(last.index)].kv)
           THEN /\ last.err = OK
                /\ marshalKeyValue(InfoOf(table, last.index), last.fields)
                     = [err |-> OK, key |-> SoughtKey.key,
                        value |-> EntryOf(buckets[indices(last.index)].kv, SoughtKey.key)[2]]
           ELSE last.err = NO_KEY

\* a Get has returned NO_KEY although a larger key is stored in the index
C5_Witness ==
    /\ last.op = "Get"
    /\ last.err = NO_KEY
    /\ indices(last.index) \in DOMAIN buckets
    /\ SoughtKey.err = OK
    /\ \E k \in Keys(buckets[indices(last.index)].kv) : BytesLess(SoughtKey.key, k)

----------------------------------------------------------------------------
(* C6 *)

\* C6: the records a Scan of an index hands to its callback have tuples of the
\* index's fields, compared lexicographically in the declared order of the
\* fields (nil placed as the index asks), that never decrease from one call to
\* the next when ascending and never increase when descending.
C6_ScanInIndexOrder ==
    (last.op = "Scan" /\ last.err = OK /\ last.index \in KeyedIndices) =>
        \A i \in 1..(Len(last.out) - 1) :
            IF last.asc
            THEN TupleLeq(IndexDefs[last.index].nilFirst,
                          IndexTuple(last.index, last.out[i]),
                          IndexTuple(last.index, last.out[i + 1]))
            ELSE TupleLeq(IndexDefs[last.index].nilFirst,
                          IndexTuple(last.index, last.out[i + 1]),
                          IndexTuple(last.index, last.out[i]))

\* a descending Scan of the index on fields (1, 0) has delivered two records
\* that the order of fields (0, 1) would have delivered the other way round
C6_Witness ==
    /\ last.op = "Scan"
    /\ ~last.asc
    /\ last.index = "index2"
    /\ last.out = << <<1, 2>>, <<2, 1>> >>

----------------------------------------------------------------------------
(* The key codec on its own: an index definition and a record go through *)
(* marshalKeyValue and then unmarshalKeyValue                            *)

\* the arity of the records the codec is given
CodecArity == 3

\* the values of the fields of those records
CodecValues == {NULL, LONGSTR} \cup Ints

CodecRecords == [1..CodecArity -> CodecValues]

\* the lists of distinct field positions taken from S, the empty list included
RECURSIVE FieldLists(_)
FieldLists(S) ==
    {<<>>} \cup UNION {{<<f>> \o q : q \in FieldLists(S \ {f})} : f \in S}

\* an index as CreateIndex and GetTable set it up from its declaration
IndexInfo(nilFirst, fields) == [nilFirst |-> nilFirst, iplist |-> makeIndexPos(fields)]

InitCodec ==
    /\ buckets = NoBuckets
    /\ table = NoTable
    /\ tx = Idle
    /\ issued = <<>>
    /\ second = NoTable
    /\ nilDefault = FALSE
    /\ last = NoCall
    /\ \E nilFirst \in BOOLEAN, fields \in FieldLists(0..(CodecArity - 1)),
          rec \in CodecRecords :
          codec = [stage |-> "input", fields |-> fields,
                   info |-> IndexInfo(nilFirst, fields), rec |-> rec,
                   err |-> OK, key |-> NIL, value |-> NIL, out |-> <<>>]

Marshal ==
    /\ codec.stage = "input"
    /\ \E m \in {marshalKeyValue(codec.info, codec.rec)} :
          codec' = [codec EXCEPT !.stage = "marshalled", !.err = m.err,
                                 !.key = m.key, !.value = m.value]
    /\ UNCHANGED <<buckets, table, tx, nilDefault, last, issued, second>>

Unmarshal ==
    /\ codec.stage = "marshalled"
    /\ codec.err = OK
    /\ \E u \in {unmarshalKeyValue(codec.info, codec.key, codec.value)} :
          codec' = [codec EXCEPT !.stage = "unmarshalled", !.err = u.err,
                                 !.out = u.fields]
    /\ UNCHANGED <<buckets, table, tx, nilDefault, last, issued, second>>

NextCodec ==
    \/ Marshal
    \/ Unmarshal

SpecCodec == InitCodec /\ [][NextCodec]_vars

----------------------------------------------------------------------------
(* C7 *)

\* C7 as claimed: for every record and every list of distinct field positions
\* below the record's arity, unmarshalKeyValue of what marshalKeyValue
\* produced returns the record's fields in their original order.
C7_RoundTrip ==
    codec.stage = "unmarshalled" => (codec.err = OK /\ codec.out = codec.rec)

\* C7, amended: the same for every list of distinct field positions that has at
\* least one position.
C7_RoundTripKeyed ==
    (codec.stage = "unmarshalled" /\ Len(codec.fields) > 0)
        => (codec.err = OK /\ codec.out = codec.rec)

\* a record of three different values has gone through an index that declares
\* two of its fields in descending position order
C7_Witness ==
    /\ codec.stage = "unmarshalled"
    /\ codec.fields = <<2, 0>>
    /\ codec.rec = <<1, NULL, 2>>
    /\ codec.key # NIL
    /\ codec.out = codec.rec

----------------------------------------------------------------------------
(* C8 *)

\* C8: when a Put reports an error, also after it has written entries to some
\* indices, the store holds in every bucket exactly what it held before the
\* Put.
C8_FailedPutChangesNothing ==
    (last.op = "Put" /\ last.err # OK) => buckets = last.before

\* a Put has failed at an index after it had written an entry to another index
C8_Witness ==
    /\ last.op = "Put"
    /\ last.err # OK
    /\ last.written > 0

----------------------------------------------------------------------------
(* Put and Delete step by step inside db.Update, with readers in between: *)
(* a writer works on the transaction's own copy of the store (tx.bk) and  *)
(* db.View reads the store as last committed (buckets)                    *)

\* records handed to Put, key records handed to Delete and to Get
TxPutRecords == {<<NULL, 1>>, <<1, NULL>>, <<AUTOINCREMENT, 1>>, <<1, LONGSTR>>}

TxKeyRecords == {<<NULL, 1>>, <<1, NULL>>}

\* CreateIndex for every name of the list, as declared
RECURSIVE DeclareAll(_, _, _)
DeclareAll(bk, t, names) ==
    IF Len(names) = 0 THEN bk
    ELSE DeclareAll(CreateIndexTx(bk, t, Head(names), IndexDefs[Head(names)].nilFirst,
                                  IndexDefs[Head(names)].fields).bk,
                    t, Tail(names))

\* the store after CreateTable and the CreateIndex calls
SetUp ==
    DeclareAll(CreateTableTx(NoBuckets, "table").bk,
               [valid |-> TRUE, name |-> "table", indices |-> NoTable.indices],
               NameOrder)

InitTx ==
    /\ buckets = SetUp
    /\ table = [valid |-> TRUE, name |-> "table",
                indices |-> GetTableView(SetUp, "table").indices]
    /\ tx = Idle
    /\ issued = <<>>
    /\ second = NoTable
    /\ codec = NoCodec
    /\ nilDefault \in BOOLEAN
    /\ last = NoCall

\* a transaction as db.Update begins it: the function's progress (todo: the
\* indices its loop has still to visit), its copy of the store and its error
Begun(op, index, rec, b, found, order) ==
    [phase |-> "open", op |-> op, index |-> index, rec |-> rec,
     todo |-> IF b.err = OK /\ found THEN order ELSE <<>>,
     fields |-> b.fields, found |-> found, bk |-> b.bk, snap |-> buckets,
     err |-> b.err]

\* Put, up to its loop over the indices
TxBeginPut(rec) ==
    /\ tx.phase = "idle"
    /\ \E order \in Orders(DOMAIN table.indices) :
          /\ WithinBounds(PutTx(buckets, table, rec, order).bk)
          /\ \E b \in {PutBegin(buckets, table, rec)} :
                tx' = Begun("Put", "", rec, b, TRUE, order)
    /\ UNCHANGED <<buckets, table, codec, nilDefault, last, issued, second>>

\* Delete, up to its loop over the indices
TxBeginDelete(index, key) ==
    /\ tx.phase = "idle"
    /\ \E order \in Orders(DOMAIN table.indices) :
          \E b \in {DeleteBegin(buckets, table, index, key)} :
             tx' = Begun("Delete", index, key, b, b.found, order)
    /\ UNCHANGED <<buckets, table, codec, nilDefault, last, issued, second>>

\* one turn of the loop over the indices
TxStep ==
    /\ tx.phase = "open"
    /\ Len(tx.todo) > 0
    /\ \E r \in {IF tx.op = "Put"
                 THEN PutIndex(tx.bk, table, tx.fields, Head(tx.todo))
                 ELSE DeleteIndex(tx.bk, table, tx.index, tx.fields, Head(tx.todo))} :
          tx' = [tx EXCEPT !.bk = r.bk, !.err = r.err,
                           !.todo = IF r.err = OK THEN Tail(@) ELSE <<>>]
    /\ UNCHANGED <<buckets, table, codec, nilDefault, last, issued, second>>

\* the function has returned nil: db.Update commits
TxCommit ==
    /\ tx.phase = "open"
    /\ Len(tx.todo) = 0
    /\ tx.err = OK
    /\ buckets' = tx.bk
    /\ tx' = [tx EXCEPT !.phase = "committed"]
    /\ UNCHANGED <<table, codec, nilDefault, last, issued, second>>

\* the function has returned an error: db.Update rolls back
TxRollback ==
    /\ tx.phase = "open"
    /\ Len(tx.todo) = 0
    /\ tx.err # OK
    /\ tx' = [tx EXCEPT !.phase = "aborted"]
    /\ UNCHANGED <<buckets, table, codec, nilDefault, last, issued, second>>

\* db.Update returns and the next writer may begin
TxEnd ==
    /\ tx.phase \in {"committed", "aborted"}
    /\ tx' = Idle
    /\ UNCHANGED <<buckets, table, codec, nilDefault, last, issued, second>>

NextTx ==
    \/ \E rec \in TxPutRecords : TxBeginPut(rec)
    \/ \E index \in IndexNames, key \in TxKeyRecords : TxBeginDelete(index, key)
    \/ TxStep
    \/ TxCommit
    \/ TxRollback
    \/ TxEnd
    \/ \E index \in IndexNames, key \in TxKeyRecords : Get(index, key)
    \/ \E index \in IndexNames, asc \in BOOLEAN : Scan(index, asc, NoStart, 0)
    \/ \E index \in IndexNames : ForEach(index)
    \/ Return

SpecTx == InitTx /\ [][NextTx]_vars

----------------------------------------------------------------------------
(* C9 *)

\* the write of the transaction shows in the index in store bk: the record a
\* Put wrote is among its entries, the record a Delete matched is not
Reflected(bk, index) ==
    IF tx.op = "Put" THEN tx.fields \in Decoded(bk, index)
    ELSE tx.fields \notin Decoded(bk, index)

\* C9: in every state readers can see, the write of a Put or Delete is in none
\* of the indices (the store is as it was when the transaction began) until
\* the transaction commits, and from then on in every index of the table; a
\* transaction that is rolled back or matched no record leaves the store as
\* it was.
C9_WriteInAllIndicesOrNone ==
    /\ tx.phase \in {"open", "aborted"} => buckets = tx.snap
    /\ (tx.phase = "committed" /\ ~tx.found) => buckets = tx.snap
    /\ (tx.phase = "committed" /\ tx.found) =>
          \A index \in KeyedIndices : Reflected(buckets, index)

----------------------------------------------------------------------------
(* C10 *)

\* the value of the table's sequence in store bk
SequenceOf(bk) == IF table.name \in DOMAIN bk THEN bk[table.name].seq ELSE 0

\* C10 as claimed: a successful Put of a record with markers advances the
\* table's sequence by exactly one and substitutes that one value for every
\* marker; a successful Put without markers leaves the sequence as it is.
C10_OneValuePerPut ==
    (last.op = "Put" /\ last.err = OK) =>
        IF MarkerPositions(last.rec) = {}
        THEN SequenceOf(buckets) = SequenceOf(last.before)
        ELSE /\ SequenceOf(buckets) = SequenceOf(last.before) + 1
             /\ \A i \in MarkerPositions(last.rec) :
                   last.fields[i] = SequenceOf(last.before) + 1

\* C10, amended: a successful Put advances the table's sequence by one per
\* marker of its record, the i-th marker in field order receiving the i-th new
\* value, so a record with one marker advances it by exactly one and a record
\* without markers does not advance it; a Put that fails leaves the sequence
\* as it was.
C10_OneValuePerMarker ==
    last.op = "Put" =>
        IF last.err # OK
        THEN SequenceOf(buckets) = SequenceOf(last.before)
        ELSE /\ SequenceOf(buckets)
                  = SequenceOf(last.before) + Cardinality(MarkerPositions(last.rec))
             /\ \A i \in MarkerPositions(last.rec) :
                   last.fields[i] = SequenceOf(last.before)
                       + Cardinality({j \in MarkerPositions(last.rec) : j <= i})

\* a record with two markers has just been put into a table whose sequence had
\* already advanced
C10_Witness ==
    /\ last.op = "Put"
    /\ last.err = OK
    /\ Cardinality(MarkerPositions(last.rec)) = 2
    /\ SequenceOf(last.before) > 0

----------------------------------------------------------------------------
(* A store holding an entry the codec cannot decode. The library reads     *)
(* whatever bucket a name leads to: GetTable(name) reads the bucket name   *)
(* as a schema and Scan(index) the bucket index + "_idx" as an index, be   *)
(* it the schema bucket of a table called index + "_idx", and the bolt     *)
(* file is open to every writer of it.                                     *)

\* bytes that no call of the codec produces
Undecodable == <<TagNilLast + 1>>

\* records put before the entry is damaged
DamagedRecords == {<<1, 1>>, <<2, 1>>, <<NULL, 1>>}

\* the store after Put of every record of the list
RECURSIVE Populate(_, _, _)
Populate(bk, t, recs) ==
    IF Len(recs) = 0 THEN bk
    ELSE Populate(PutResult(bk, t, Head(recs), NameOrder).bk, t, Tail(recs))

\* the handle GetTable returned while the schema was whole
GoodHandle ==
    [valid |-> TRUE, name |-> "table", indices |-> GetTableView(SetUp, "table").indices]

\* store bk with the value of one index entry, or of one schema entry, undecodable
Damaged(bk) ==
    {[bk EXCEPT ![indices(index)].kv = (@ \ {e}) \cup {<<e[1], Undecodable>>}] :
        <<index, e>> \in {x \in IndexNames \X UNION {bk[indices(n)].kv : n \in IndexNames} :
                            x[2] \in bk[indices(x[1])].kv}}
    \cup
    {[bk EXCEPT ![schema("table")].kv = {e \in @ : e[1] # index} \cup {<<index, Undecodable>>}] :
        index \in IndexNames}

InitDamaged ==
    /\ nilDefault \in BOOLEAN
    /\ table = GoodHandle
    /\ \E a \in DamagedRecords, b \in DamagedRecords :
          buckets \in Damaged(Populate(SetUp, GoodHandle, <<a, b>>))
    /\ tx = Idle
    /\ issued = <<>>
    /\ second = NoTable
    /\ codec = NoCodec
    /\ last = NoCall

NextDamaged ==
    \/ \E name \in TableNames : GetTable(name)
    \/ \E index \in IndexNames, key \in KeyRecords : Get(index, key)
    \/ \E index \in IndexNames, asc \in BOOLEAN, start \in {NoStart} \cup Probes,
          stop \in StopAt : Scan(index, asc, start, stop)
    \/ \E index \in IndexNames : ForEach(index)
    \/ Return

SpecDamaged == InitDamaged /\ [][NextDamaged]_vars

----------------------------------------------------------------------------
(* C11 *)

\* the calls of the callback of the last Scan that were handed an error
ErrorCalls == {i \in 1..Len(last.errs) : last.errs[i] # OK}

\* C11: when decoding an entry fails during a Scan, the decoding error is
\* handed to the callback exactly once, in its last call, and the iteration
\* halts there.
C11_DecodeErrorReachesCallback ==
    (last.op = "Scan" /\ last.err = DECODE_ERROR) =>
        /\ Cardinality(ErrorCalls) = 1
        /\ Len(last.errs) \in ErrorCalls
        /\ last.errs[Len(last.errs)] = DECODE_ERROR

----------------------------------------------------------------------------
(* C12 *)

\* the entries of the index stored under the key of the record just put
EntriesForPutKey(bk, index) ==
    {e \in bk[indices(index)].kv :
        e[1] = marshalKeyValue(InfoOf(table, index), last.fields).key}

\* C12: a successful Put of a record whose key in an index equals the key of
\* an entry the index already holds updates that entry: the index holds as
\* many entries as before, exactly one of them for that key, and Get through
\* the index with that key returns the record just put.
C12_PutUpdatesEqualKeyEntry ==
    (last.op = "Put" /\ last.err = OK) =>
        \A index \in KeyedIndices :
            EntriesForPutKey(last.before, index) # {} =>
                /\ Cardinality(EntriesForPutKey(buckets, index)) = 1
                /\ Cardinality(buckets[indices(index)].kv)
                     = Cardinality(last.before[indices(index)].kv)
                /\ GetView(buckets, table, index, last.fields)
                     = [err |-> OK, fields |-> last.fields]

\* a Put has just updated an entry that held another record under the same key
C12_Witness ==
    /\ last.op = "Put"
    /\ last.err = OK
    /\ \E index \in KeyedIndices :
          /\ EntriesForPutKey(last.before, index) # {}
          /\ EntriesForPutKey(last.before, index) # EntriesForPutKey(buckets, index)
          /\ GetView(last.before, table, index, last.fields).fields # last.fields

----------------------------------------------------------------------------
(* C13 *)

\* C13: CreateTable of a name the store does not hold succeeds, after it the
\* table exists and the handle returned is that table's, with no index;
\* CreateTable of a name the store holds fails with ALREADY_EXISTS, returns no
\* handle, and leaves every bucket (schema entries, index contents) as it was.
C13_CreateTableOnceOnly ==
    last.op = "CreateTable" =>
        IF schema(last.name) \notin DOMAIN last.before
        THEN /\ last.err = OK
             /\ schema(last.name) \in DOMAIN buckets
             /\ last.handle = [valid |-> TRUE, name |-> last.name,
                               indices |-> NoTable.indices]
             /\ GetTableView(buckets, last.name).err = OK
        ELSE /\ last.err = ALREADY_EXISTS
             /\ last.handle = NoTable
             /\ buckets = last.before

\* CreateTable has just been refused for a table that has an index holding an entry
C13_Witness ==
    /\ last.op = "CreateTable"
    /\ last.err = ALREADY_EXISTS
    /\ \E index \in IndexNames :
          /\ index \in Keys(buckets[schema(last.name)].kv)
          /\ indices(index) \in DOMAIN buckets
          /\ buckets[indices(index)].kv # {}

----------------------------------------------------------------------------
(* C14 *)

\* what a successful CreateIndex(index, nilFirst, fields...) leaves in the
\* handle it was called on
DeclaredInfo(index) ==
    [nilFirst |-> IndexDefs[index].nilFirst,
     iplist |-> makeIndexPos(IndexDefs[index].fields)]

\* the field position the index definition info has in slot p of its key
FieldInSlot(info, p) ==
    {info.iplist[i].field : i \in {j \in 1..Len(info.iplist) : info.iplist[j].pos = p}}

\* C14: the handle a successful GetTable returns has the indices the
\* successful CreateIndex calls persisted: the same names, for every name the
\* declared field positions in the declared slot order and the declared
\* placement of nil, so that it encodes every record to the key and value the
\* declaring handle encodes it to.
C14_GetTableReloadsDeclaredIndices ==
    (last.op = "GetTable" /\ last.err = OK) =>
        /\ DOMAIN last.handle.indices = Keys(last.before[schema(last.name)].kv)
        /\ \A index \in DOMAIN last.handle.indices :
              /\ last.handle.indices[index].nilFirst = IndexDefs[index].nilFirst
              /\ Len(last.handle.indices[index].iplist) = Len(IndexDefs[index].fields)
              /\ \A p \in 1..Len(IndexDefs[index].fields) :
                    FieldInSlot(last.handle.indices[index], p - 1)
                       = {IndexDefs[index].fields[p]}
              /\ \A rec \in Records :
                    marshalKeyValue(last.handle.indices[index], rec)
                       = marshalKeyValue(DeclaredInfo(index), rec)

\* GetTable has just reloaded an index that places nil first and an index
\* whose slot order is not the order of its field positions
C14_Witness ==
    /\ last.op = "GetTable"
    /\ last.err = OK
    /\ DOMAIN last.handle.indices = IndexNames
    /\ \E index \in IndexNames : IndexDefs[index].nilFirst
    /\ \E index \in IndexNames :
          \E p, q \in 1..Len(IndexDefs[index].fields) :
             p < q /\ IndexDefs[index].fields[p] > IndexDefs[index].fields[q]

----------------------------------------------------------------------------
(* C15 *)

\* the schema entries of the table named in the last call, before the call,
\* that cannot be decoded
CorruptedEntries ==
    {e \in last.before[schema(last.name)].kv : DecodeSchema(e[2]).err # OK}

\* C15: GetTable of a table whose schema bucket holds an entry that cannot be
\* decoded fails with SCHEMA_CORRUPTED and returns no handle.
C15_GetTableReportsCorruptedSchema ==
    (last.op = "GetTable" /\ schema(last.name) \in DOMAIN last.before
                          /\ CorruptedEntries # {}) =>
        /\ last.err = SCHEMA_CORRUPTED
        /\ last.handle = NoTable

----------------------------------------------------------------------------
(* C16 *)

\* the records the table's indices held before the last call
HeldBefore ==
    UNION {Decoded(last.before, index) :
             index \in {n \in KeyedIndices : indices(n) \in DOMAIN last.before}}

\* C16: a successful CreateIndex creates an empty index and leaves the other
\* buckets' entries as they were, so a Scan of the new index delivers nothing
\* and a Get through it finds none of the records put before; a successful
\* Put enters the record it was given, and no other record, in every index of
\* the handle.
C16_NewIndexStartsEmpty ==
    /\ (last.op = "CreateIndex" /\ last.err = OK) =>
          /\ buckets[indices(last.index)].kv = {}
          /\ \A n \in DOMAIN last.before \ {schema(table.name)} :
                buckets[n] = last.before[n]
          /\ Delivered(buckets, last.index) = <<>>
          /\ \A rec \in HeldBefore :
                GetView(buckets, table, last.index, rec).err = NO_KEY
    /\ (last.op = "Put" /\ last.err = OK) =>
          \A index \in KeyedIndices :
             /\ last.fields \in Range(Delivered(buckets, index))
             /\ GetView(buckets, table, index, last.fields).fields = last.fields
             /\ Range(Delivered(buckets, index)) \ Range(Delivered(last.before, index))
                  = {last.fields} \ Range(Delivered(last.before, index))

\* CreateIndex has just declared an index on a table that holds a record
C16_Witness ==
    /\ last.op = "CreateIndex"
    /\ last.err = OK
    /\ HeldBefore # {}
    /\ Len(table.indices[last.index].iplist) > 0

----------------------------------------------------------------------------
(* C17 *)

\* calls i < j of the callback of the last Scan whose records have equal values
\* in the index's fields before slot p and, in slot p, nil in one of them only
NilAgainstValue(i, j, p) ==
    LET differ(x, y) ==
            /\ \A q \in 1..(p - 1) : x[q] = y[q]
            /\ (x[p] = NULL) # (y[p] = NULL)
    IN /\ i < j
       /\ differ(IndexTuple(last.index, last.out[i]), IndexTuple(last.index, last.out[j]))

\* C17: of two records a Scan delivers that have equal values in the index's
\* fields before some field and nil in that field in one of them only, the one
\* with nil is delivered first exactly when the index places nil first and the
\* Scan ascends, or the index places nil last and the Scan descends.
C17_NilPlacedAsDeclared ==
    (last.op = "Scan" /\ last.err = OK /\ last.index \in KeyedIndices) =>
        \A i, j \in 1..Len(last.out) :
            \A p \in 1..Len(IndexDefs[last.index].fields) :
                NilAgainstValue(i, j, p) =>
                    ((IndexTuple(last.index, last.out[i])[p] = NULL)
                        <=> (IndexDefs[last.index].nilFirst = last.asc))

\* a descending Scan of the index that places nil last has delivered a record
\* with nil in a field of the index before a record with a value in it
C17_Witness ==
    /\ last.op = "Scan"
    /\ last.err = OK
    /\ last.index \in KeyedIndices
    /\ ~IndexDefs[last.index].nilFirst
    /\ ~last.asc
    /\ \E p \in 1..Len(IndexDefs[last.index].fields) :
          /\ Len(last.out) = 2
          /\ NilAgainstValue(1, 2, p)
          /\ IndexTuple(last.index, last.out[1])[p] = NULL

----------------------------------------------------------------------------
(* C19 *)

\* the entry the seek of the last call landed on in its index, before the call
LandedOn == Seek(last.before[indices(last.index)].kv, SoughtKey.key)

\* C19: a Delete through an index whose key no entry of the index byte-equals
\* leaves every bucket as it was, the index it went through and the others,
\* also when the seek lands on an entry with a larger key.
C19_DeleteWithoutMatchChangesNothing ==
    (/\ last.op = "Delete"
     /\ indices(last.index) \in DOMAIN last.before
     /\ SoughtKey.err = OK
     /\ SoughtKey.key \notin Keys(last.before[indices(last.index)].kv))
        => buckets = last.before

\* a Delete whose seek landed on an entry with a larger key has just returned
C19_Witness ==
    /\ last.op = "Delete"
    /\ indices(last.index) \in DOMAIN last.before
    /\ SoughtKey.err = OK
    /\ LandedOn[1] # NIL
    /\ LandedOn[1] # SoughtKey.key
    /\ BytesLess(SoughtKey.key, LandedOn[1])
    /\ \E index \in KeyedIndices \ {last.index} : buckets[indices(index)].kv # {}

----------------------------------------------------------------------------
(* C20 *)

\* the values of rec at the declared field positions, in declared order
KeyTuple(fields, rec) == [p \in 1..Len(fields) |-> rec[fields[p] + 1]]

\* the values of rec, from position i on, at the positions that are not declared
RECURSIVE Remaining(_, _, _)
Remaining(fields, rec, i) ==
    IF i > Len(rec) THEN <<>>
    ELSE (IF (i - 1) \in Range(fields) THEN <<>> ELSE <<rec[i]>>)
            \o Remaining(fields, rec, i + 1)

\* the records that differ from rec in one field
Neighbours(rec) ==
    {[rec EXCEPT ![i] = v] : i \in 1..Len(rec), v \in CodecValues} \ {rec}

\* C20: for an index declared with field positions p1..pk, the key
\* marshalKeyValue produces decodes to (record[p1], ..., record[pk]) in that
\* declared order and the value to the remaining fields in original order;
\* the bytes of two records' keys compare as their tuples do, by record[p1]
\* first, then record[p2], and so on.
C20_KeyInDeclaredOrder ==
    (codec.stage = "marshalled" /\ Len(codec.fields) > 0) =>
        /\ codec.err = OK
        /\ DecodeAll(codec.key) = [err |-> OK, vals |-> KeyTuple(codec.fields, codec.rec)]
        /\ DecodeAll(codec.value)
             = [err |-> OK, vals |-> Remaining(codec.fields, codec.rec, 1)]
        /\ \A other \in Neighbours(codec.rec) :
              BytesLeq(codec.key, marshalKeyValue(codec.info, other).key)
                 <=> TupleLeq(codec.info.nilFirst, KeyTuple(codec.fields, codec.rec),
                              KeyTuple(codec.fields, other))

\* a record has been marshalled for an index declared on positions (1, 0),
\* whose slots hold different values
C20_Witness ==
    /\ codec.stage = "marshalled"
    /\ codec.err = OK
    /\ codec.fields = <<1, 0>>
    /\ codec.rec[1] # codec.rec[2]
    /\ DecodeAll(codec.key).vals = <<codec.rec[2], codec.rec[1]>>
    /\ codec.value # NIL

----------------------------------------------------------------------------
(* The variant of src/boltql.go: Put returns a record number and Delete     *)
(* takes one. Its index definitions have no nil placement: marshalKeyValue  *)
(* encodes with typedbuffer.Encode, the codec's default placement.          *)

\* src/boltql.go:192, typedbuffer.Encode(fields)
BoltqlEncodeSchema(fields) == <<TagArray, Len(fields)>> \o fields

\* src/boltql.go:209, t.indices[index] = makeIndexPos(fields)
BoltqlInfo(fields) == [nilFirst |-> nilDefault, iplist |-> makeIndexPos(fields)]

\* src/boltql.go:186-206: the function CreateIndex hands to db.Update
BoltqlCreateIndexTx(bk, t, index, fields) ==
    IF schema(t.name) \notin DOMAIN bk THEN [err |-> NO_TABLE, bk |-> bk]
    ELSE LET create(bk1) ==
                 IF indices(index) \in DOMAIN bk1 THEN [err |-> ALREADY_EXISTS, bk |-> bk1]
                 ELSE [err |-> OK, bk |-> WithBucket(bk1, indices(index), EmptyBucket)]
         IN create([bk EXCEPT ![schema(t.name)].kv =
                       {e \in @ : e[1] # index} \cup {<<index, BoltqlEncodeSchema(fields)>>}])

\* CreateIndex for every name of the list, as declared
RECURSIVE BoltqlDeclareAll(_, _, _)
BoltqlDeclareAll(bk, t, names) ==
    IF Len(names) = 0 THEN bk
    ELSE BoltqlDeclareAll(BoltqlCreateIndexTx(bk, t, Head(names),
                                              IndexDefs[Head(names)].fields).bk,
                          t, Tail(names))

\* the store after CreateTable and the CreateIndex calls
BoltqlSetUp ==
    BoltqlDeclareAll(CreateTableTx(NoBuckets, "table").bk,
                     [valid |-> TRUE, name |-> "table", indices |-> NoTable.indices],
                     NameOrder)

\* the handle after those calls
BoltqlHandle ==
    [valid |-> TRUE, name |-> "table",
     indices |-> [index \in IndexNames |-> BoltqlInfo(IndexDefs[index].fields)]]

\* src/boltql.go:286-332. The function handed to db.Update is, statement for
\* statement, the one of part_000:330-368; the key it declares inside the loop
\* (key, val, err := marshalKeyValue) hides the variable Put returns, which
\* keeps its zero value
BoltqlPutResult(bk, t, rec, order) ==
    LET end(r) == [err |-> r.err, bk |-> Update(bk, r), fields |-> r.fields,
                   number |-> UnassignedKey]
    IN end(PutTx(bk, t, rec, order))

\* src/boltql.go:390, typedbuffer.EncodeUint64(key)
EncodeUint64(n) == <<TagInt, n>>

\* the bytes of an index name that decide how it compares with the other names
\* and with an encoded number: its first letter and its last digit
NameBytes(name) == <<105>> \o (IF name = NameOrder[1] THEN <<49>> ELSE <<50>>)

\* src/boltql.go:384-430: the function Delete hands to db.Update. The cursor
\* seeks the encoded number in the table's bucket, whose entries are the index
\* definitions CreateIndex stored under the index names
BoltqlDeleteTx(bk, t, n, order) ==
    LET entries == {<<NameBytes(e[1]), e[2]>> : e \in bk[t.name].kv}
        indexes(d, bk1) ==
            IF d.err # OK THEN [err |-> d.err, bk |-> bk1]
            ELSE DeleteLoop(bk1, t, "", d.vals, order)
        found(e) ==
            IF EncodeUint64(n) # e[1] THEN [err |-> OK, bk |-> bk]
            ELSE indexes(DecodeAll(e[2]),
                         [bk EXCEPT ![t.name].kv =
                             {x \in @ : NameBytes(x[1]) # e[1]}])
    IN IF t.name \notin DOMAIN bk THEN [err |-> NO_TABLE, bk |-> bk]
       ELSE found(Seek(entries, EncodeUint64(n)))

BoltqlDeleteResult(bk, t, n, order) ==
    LET end(r) == [r EXCEPT !.bk = Update(bk, r)]
    IN end(BoltqlDeleteTx(bk, t, n, order))

\* records handed to Put
BoltqlRecords == {<<1, 1>>, <<2, 1>>, <<AUTOINCREMENT, 1>>}

InitBoltql ==
    /\ nilDefault \in BOOLEAN
    /\ buckets = BoltqlSetUp
    /\ table = BoltqlHandle
    /\ tx = Idle
    /\ issued = <<>>
    /\ second = NoTable
    /\ codec = NoCodec
    /\ last = NoCall

BoltqlPut(rec) ==
    /\ last = NoCall
    /\ Len(issued) < MaxEntries
    /\ \E order \in Orders(DOMAIN table.indices) :
          \E r \in {BoltqlPutResult(buckets, table, rec, order)} :
             /\ WithinBounds(r.bk)
             /\ buckets' = r.bk
             /\ last' = [Call("Put", "", TRUE, rec, 0, r.err, r.fields, <<>>, 0, buckets)
                            EXCEPT !.number = r.number]
             /\ issued' = IF r.err = OK
                          THEN Append(issued, [number |-> r.number, fields |-> r.fields])
                          ELSE issued
    /\ UNCHANGED <<table, tx, codec, nilDefault, second>>

BoltqlDelete(n) ==
    /\ last = NoCall
    /\ \E order \in Orders(DOMAIN table.indices) :
          \E r \in {BoltqlDeleteResult(buckets, table, n, order)} :
             /\ buckets' = r.bk
             /\ last' = [Call("Delete", "", TRUE, <<>>, 0, r.err, <<>>, <<>>, 0, buckets)
                            EXCEPT !.number = n]
    /\ UNCHANGED <<table, tx, codec, nilDefault, issued, second>>

BoltqlReturn ==
    /\ last # NoCall
    /\ last' = NoCall
    /\ UNCHANGED <<buckets, table, tx, codec, nilDefault, issued, second>>

NextBoltql ==
    \/ \E rec \in BoltqlRecords : BoltqlPut(rec)
    \/ \E n \in 0..MaxSeq : BoltqlDelete(n)
    \/ BoltqlReturn

SpecBoltql == InitBoltql /\ [][NextBoltql]_vars

----------------------------------------------------------------------------
(* C18 *)

\* the records the entries of the index decode to
BoltqlHeld(bk, index) ==
    {unmarshalKeyValue(table.indices[index], e[1], e[2]).fields : e \in bk[indices(index)].kv}

\* the records stored in the table's bucket under the record number n
BoltqlStoredUnder(bk, n) ==
    {DecodeAll(e[2]).vals : e \in {x \in bk[table.name].kv : NameBytes(x[1]) = EncodeUint64(n)}}

\* C18: in the variant of src/boltql.go, the numbers successful Puts return
\* are distinct, a successful Put leaves the record stored under the number it
\* returns, and after a successful Delete(n), n the number a Put returned for a
\* record, no index of the table holds that record.
C18_PutNumbersRecordsDeleteUnlinksThem ==
    /\ \A i, j \in 1..Len(issued) : i # j => issued[i].number # issued[j].number
    /\ (last.op = "Put" /\ last.err = OK) =>
          BoltqlStoredUnder(buckets, last.number) = {last.fields}
    /\ (last.op = "Delete" /\ last.err = OK) =>
          \A i \in 1..Len(issued) :
             issued[i].number = last.number =>
                \A index \in IndexNames : issued[i].fields \notin BoltqlHeld(buckets, index)

----------------------------------------------------------------------------
(* C21 *)

\* the keys of the index the last Scan went through
StoredKeys == Keys(last.before[indices(last.index)].kv)

\* the keys of the records the last Scan delivered, in the order of delivery
ScanKeys ==
    [i \in 1..Len(last.out) |->
        marshalKeyValue(InfoOf(table, last.index), last.out[i]).key]

\* the last call was a successful Scan of an index with fields, from a start record
ScanFromStart ==
    /\ last.op = "Scan"
    /\ last.err = OK
    /\ last.rec # NoStart
    /\ last.index \in KeyedIndices
    /\ SoughtKey.err = OK

\* every record delivered is the one stored under its key
DeliveredAsStored ==
    \A i \in 1..Len(last.out) :
        /\ ScanKeys[i] \in StoredKeys
        /\ last.out[i]
             = unmarshalKeyValue(InfoOf(table, last.index), ScanKeys[i],
                   EntryOf(last.before[indices(last.index)].kv, ScanKeys[i])[2]).fields

\* C21: an ascending Scan from a start record, some stored key being greater
\* than or equal to the start key, delivers first the entry with the smallest
\* stored key >= the start key, then the entries with the next larger keys,
\* one after the other with none left out, up to the last one unless the
\* callback stops it.
C21_AscendingFromSeek ==
    (ScanFromStart /\ last.asc
        /\ \E k \in StoredKeys : BytesLeq(SoughtKey.key, k)) =>
        /\ Len(last.out) >= 1
        /\ DeliveredAsStored
        /\ BytesLeq(SoughtKey.key, ScanKeys[1])
        /\ ~\E k \in StoredKeys : BytesLeq(SoughtKey.key, k) /\ BytesLess(k, ScanKeys[1])
        /\ \A i \in 1..(Len(last.out) - 1) :
              /\ BytesLess(ScanKeys[i], ScanKeys[i + 1])
              /\ ~\E k \in StoredKeys : BytesLess(ScanKeys[i], k) /\ BytesLess(k, ScanKeys[i + 1])
        /\ last.stop = 0 => ~\E k \in StoredKeys : BytesLess(ScanKeys[Len(last.out)], k)

\* an ascending Scan has started at the entry after the start key, which no
\* entry has, and left a smaller entry out
C21_Witness ==
    /\ ScanFromStart
    /\ last.asc
    /\ last.stop = 0
    /\ SoughtKey.key \notin StoredKeys
    /\ \E k \in StoredKeys : BytesLess(k, SoughtKey.key)
    /\ Len(last.out) = 1
    /\ BytesLess(SoughtKey.key, ScanKeys[1])

----------------------------------------------------------------------------
(* C22 *)

\* C22: a descending Scan from a start record, some stored key being less than
\* or equal to the start key, delivers first the entry with the largest stored
\* key <= the start key (the entry before the one the seek lands on when no
\* entry has the start key, the last entry when the start key is above every
\* stored key), then the entries with the next smaller keys, one after the
\* other with none left out, down to the first one unless the callback stops it.
C22_DescendingFromPredecessor ==
    (ScanFromStart /\ ~last.asc
        /\ \E k \in StoredKeys : BytesLeq(k, SoughtKey.key)) =>
        /\ Len(last.out) >= 1
        /\ DeliveredAsStored
        /\ BytesLeq(ScanKeys[1], SoughtKey.key)
        /\ ~\E k \in StoredKeys : BytesLeq(k, SoughtKey.key) /\ BytesLess(ScanKeys[1], k)
        /\ \A i \in 1..(Len(last.out) - 1) :
              /\ BytesLess(ScanKeys[i + 1], ScanKeys[i])
              /\ ~\E k \in StoredKeys : BytesLess(ScanKeys[i + 1], k) /\ BytesLess(k, ScanKeys[i])
        /\ last.stop = 0 => ~\E k \in StoredKeys : BytesLess(k, ScanKeys[Len(last.out)])

\* a descending Scan whose seek landed on a larger key has started at the entry
\* before it
C22_Witness ==
    /\ ScanFromStart
    /\ ~last.asc
    /\ last.stop = 0
    /\ SoughtKey.key \notin StoredKeys
    /\ \E k \in StoredKeys : BytesLess(SoughtKey.key, k)
    /\ Len(last.out) = 1
    /\ BytesLess(ScanKeys[1], SoughtKey.key)

----------------------------------------------------------------------------
(* C23 *)

\* C23: a Scan from a start record delivers only records whose key in the
\* index is on the Scan's side of the start key, >= it when ascending and <= it
\* when descending, and so no record when no stored key is on that side.
C23_OnlyOnTheSideOfTheStart ==
    ScanFromStart =>
        \A i \in 1..Len(last.out) :
            IF last.asc THEN BytesLeq(SoughtKey.key, ScanKeys[i])
            ELSE BytesLeq(ScanKeys[i], SoughtKey.key)

----------------------------------------------------------------------------
(* C24 *)

\* C24: the callback of a Scan is not called again after the call at which it
\* returned false, and the Scan then returns nil; a Scan without a start record
\* whose callback never returns false calls it once for every entry of the
\* index, each entry's record delivered once, and returns nil.
C24_StopsWhenToldAndAtTheEnd ==
    (last.op = "Scan" /\ last.index \in KeyedIndices) =>
        /\ last.stop > 0 =>
              /\ Len(last.out) <= last.stop
              /\ Len(last.out) = last.stop => last.err = OK
        /\ (last.stop = 0 /\ last.rec = NoStart) =>
              /\ last.err = OK
              /\ Len(last.out) = Cardinality(StoredKeys)
              /\ DeliveredAsStored
              /\ {ScanKeys[i] : i \in 1..Len(last.out)} = StoredKeys

\* the callback of a Scan of an index with two entries has returned false at
\* its first call
C24_Witness ==
    /\ last.op = "Scan"
    /\ last.index \in KeyedIndices
    /\ last.stop = 1
    /\ last.err = OK
    /\ Len(last.out) = 1
    /\ Cardinality(StoredKeys) > 1
    /\ last.rec = NoStart

----------------------------------------------------------------------------
(* unmarshalKeyValue through an index definition other than the one the    *)
(* entry was written with: the zero definition t.indices[index] gives a    *)
(* handle that does not know the index, a definition short of the last     *)
(* field position, a definition with one position more.                    *)

\* the lists of positions a reader may take an entry written with fields for
ReaderFields(fields) ==
    {<<>>, Append(fields, CodecArity)}
        \cup (IF Len(fields) = 0 THEN {} ELSE {SubSeq(fields, 1, Len(fields) - 1)})

InitReader ==
    /\ buckets = NoBuckets
    /\ table = NoTable
    /\ tx = Idle
    /\ issued = <<>>
    /\ second = NoTable
    /\ nilDefault = FALSE
    /\ last = NoCall
    /\ \E nilFirst \in BOOLEAN, fields \in FieldLists(0..(CodecArity - 1)),
          rec \in CodecRecords :
          \E other \in ReaderFields(fields) :
             codec = [stage |-> "input", fields |-> fields,
                      info |-> IndexInfo(nilFirst, fields), rec |-> rec,
                      err |-> OK, key |-> NIL, value |-> NIL, out |-> <<>>,
                      reader |-> IndexInfo(nilFirst, other)]

\* lines 286-319, for the entry marshalKeyValue produced
UnmarshalAsReader ==
    /\ codec.stage = "marshalled"
    /\ codec.err = OK
    /\ codec.key # NIL
    /\ \E u \in {unmarshalKeyValue(codec.reader, codec.key, codec.value)} :
          codec' = [codec EXCEPT !.stage = "unmarshalled", !.err = u.err,
                                 !.out = u.fields]
    /\ UNCHANGED <<buckets, table, tx, nilDefault, last, issued, second>>

NextReader ==
    \/ Marshal
    \/ UnmarshalAsReader

SpecReader == InitReader /\ [][NextReader]_vars

----------------------------------------------------------------------------
(* C25 *)

\* the numbers of values the key and the value decode to do not fit the
\* reader's index definition: the key has fewer or more values than the
\* definition has positions, or a position is not below the number of values
InconsistentCounts ==
    \/ Len(DecodeAll(codec.key).vals) # Len(codec.reader.iplist)
    \/ \E i \in 1..Len(codec.reader.iplist) :
          codec.reader.iplist[i].field
             >= Len(DecodeAll(codec.key).vals) + Len(DecodeAll(codec.value).vals)

\* C25: unmarshalKeyValue fails with SCHEMA_CORRUPTED whenever the numbers of
\* values decoded from the key and the value are inconsistent with the index
\* definition; it returns no record then and does not fault.
C25_InconsistentCountsReported ==
    (codec.stage = "unmarshalled" /\ InconsistentCounts) =>
        (codec.err = SCHEMA_CORRUPTED /\ codec.out = <<>>)

----------------------------------------------------------------------------
(* C26 *)

\* C26: a successful Delete of a record r removes the entries of r only: every
\* other record that Get found through an index before the Delete is found
\* through that index after it, also when it has r's key in an index other
\* than the one the Delete went through.
C26_DeleteLeavesOtherRecords ==
    (last.op = "Delete" /\ last.err = OK /\ MatchedBefore.err = OK) =>
        \A index \in KeyedIndices :
            \A x \in Decoded(last.before, index) \ {MatchedBefore.fields} :
                GetView(buckets, table, index, x) = [err |-> OK, fields |-> x]

----------------------------------------------------------------------------
(* C27 *)

\* the indices of the handle hold the same set of records in store bk
SameRecords(bk) ==
    \A a, b \in KeyedIndices : Decoded(bk, a) = Decoded(bk, b)

\* C27: the indices of a table hold the same set of records after every
\* successful Put and Delete: they do when the table is created, and a
\* successful Put or Delete through the handle that holds every index, on
\* indices holding the same set of records, leaves them holding the same set,
\* also when the record put has the key of a held record in one index only.
C27_IndicesHoldTheSameRecords ==
    (/\ last.op \in {"Put", "Delete"}
     /\ last.err = OK
     /\ DOMAIN table.indices = DOMAIN IndexDefs
     /\ SameRecords(last.before)) => SameRecords(buckets)

----------------------------------------------------------------------------
(* Two handles on one store *)

\* the names CreateTable is given through the second handle: a second table,
\* and a table whose bucket has the name of the bucket of index2
OtherTableNames == {"table2", indices("index2")}

\* the names GetTable is given through the second handle
OpenTableNames == {"table", "table2"}

\* records put through either handle
HandleRecords == {<<1, 1>>, <<1, 2>>, <<NULL, 1>>}

InitHandles ==
    /\ buckets = CreateTableTx(NoBuckets, "table").bk
    /\ table = [valid |-> TRUE, name |-> "table", indices |-> NoTable.indices]
    /\ second = NoTable
    /\ tx = Idle
    /\ issued = <<>>
    /\ codec = NoCodec
    /\ nilDefault \in BOOLEAN
    /\ last = NoCall

OtherCreateTable(name) ==
    /\ last = NoCall
    /\ \E r \in {CreateTableTx(buckets, name)} :
          /\ buckets' = Update(buckets, r)
          /\ second' = IF r.err = OK
                      THEN [valid |-> TRUE, name |-> name, indices |-> NoTable.indices]
                      ELSE second
          /\ last' = [Call("CreateTable", "", TRUE, <<>>, 0, r.err, <<>>, <<>>, 0, buckets)
                         EXCEPT !.name = name, !.through = "second"]
    /\ UNCHANGED <<table, tx, codec, nilDefault, issued>>

OtherGetTable(name) ==
    /\ last = NoCall
    /\ \E r \in {GetTableView(buckets, name)} :
          /\ second' = IF r.err = OK
                      THEN [valid |-> TRUE, name |-> name, indices |-> r.indices]
                      ELSE second
          /\ last' = [Call("GetTable", "", TRUE, <<>>, 0, r.err, <<>>, <<>>, 0, buckets)
                         EXCEPT !.name = name, !.through = "second"]
    /\ UNCHANGED <<buckets, table, tx, codec, nilDefault, issued>>

OtherCreateIndex(index, nilFirst, fields) ==
    /\ last = NoCall
    /\ second.valid
    /\ \E r \in {CreateIndexTx(buckets, second, index, nilFirst, fields)} :
          /\ buckets' = Update(buckets, r)
          /\ second' = IF r.err = OK
                      THEN [second EXCEPT !.indices =
                              [n \in DOMAIN second.indices \cup {index} |->
                                  IF n = index
                                  THEN [nilFirst |-> nilFirst, iplist |-> makeIndexPos(fields)]
                                  ELSE second.indices[n]]]
                      ELSE second
          /\ last' = [Call("CreateIndex", index, TRUE, fields, 0, r.err, <<>>, <<>>, 0, buckets)
                         EXCEPT !.through = "second"]
    /\ UNCHANGED <<table, tx, codec, nilDefault, issued>>

OtherPut(rec) ==
    /\ last = NoCall
    /\ second.valid
    /\ \E order \in Orders(DOMAIN second.indices) :
          \E r \in {PutResult(buckets, second, rec, order)} :
             /\ WithinBounds(r.bk)
             /\ buckets' = r.bk
             /\ last' = [Call("Put", "", TRUE, rec, 0, r.err, r.fields, <<>>, r.written, buckets)
                            EXCEPT !.through = "second"]
    /\ UNCHANGED <<table, second, tx, codec, nilDefault, issued>>

NextHandles ==
    \/ \E index \in IndexNames :
          CreateIndex(index, IndexDefs[index].nilFirst, IndexDefs[index].fields)
    \/ \E rec \in HandleRecords : Put(rec)
    \/ \E index \in IndexNames, key \in HandleRecords : Delete(index, key)
    \/ \E name \in OtherTableNames : OtherCreateTable(name)
    \/ \E name \in OpenTableNames : OtherGetTable(name)
    \/ \E index \in IndexNames :
          OtherCreateIndex(index, IndexDefs[index].nilFirst, IndexDefs[index].fields)
    \/ \E rec \in HandleRecords : OtherPut(rec)
    \/ Return

SpecHandles == InitHandles /\ [][NextHandles]_vars

----------------------------------------------------------------------------
(* C28 *)

\* the indices of the first handle's table that another handle declared after
\* the first handle was obtained: the stored schema has them, the handle not
StaleIndices ==
    {J \in IndexNames \ DOMAIN table.indices :
        J \in DOMAIN GetTableView(buckets, table.name).indices}

\* the records the entries of index J decode to in store bk, by the stored schema
DecodedByDeclaration(bk, J) ==
    {unmarshalKeyValue(GetTableView(bk, table.name).indices[J], e[1], e[2]).fields :
        e \in bk[indices(J)].kv}

\* a Put or Delete through the first handle leaves index J as it was
UntouchedByFirstHandle ==
    (last.through = "table" /\ last.op \in {"Put", "Delete"}) =>
        /\ last.op = "Put" /\ StaleIndices # {} => last.err = OK
        /\ \A J \in StaleIndices : buckets[indices(J)] = last.before[indices(J)]

\* the first handle's index set changes by a successful CreateIndex through it only
IndexSetOfHandleFixed ==
    table'.indices # table.indices =>
        last'.op = "CreateIndex" /\ last'.through = "table" /\ last'.err = OK

\* C28: the index set of a handle changes by the CreateIndex calls made through
\* it only; a Put through a handle obtained before another handle declared
\* index J succeeds and writes no entry to J, and a Delete through it removes
\* no entry from J.
C28_StaleHandleLeavesNewIndexAlone ==
    [] UntouchedByFirstHandle /\ [][IndexSetOfHandleFixed]_vars

\* a Delete through the first handle has removed a record from the handle's
\* index and left it in an index the second handle declared
C28_Witness ==
    /\ last.through = "table" /\ last.op = "Delete" /\ last.err = OK
    /\ MatchedBefore.err = OK
    /\ \E J \in StaleIndices : MatchedBefore.fields \in DecodedByDeclaration(buckets, J)
    /\ MatchedBefore.fields \notin Decoded(buckets, last.index)

----------------------------------------------------------------------------
(* C29 *)

\* every name a table is created under
AllTableNames == TableNames \cup OtherTableNames

\* bucket n of store bk is the bucket of a table: it exists, and it is not the
\* bucket of an index that a table declares
IsTable(bk, n) ==
    /\ n \in DOMAIN bk
    /\ \A T \in OpenTableNames \cap DOMAIN bk :
          \A i \in IndexNames : i \in Keys(bk[T].kv) => indices(i) # n

\* the index names the schema entries of table T declare
DeclaredNames(bk, T) == IF IsTable(bk, T) THEN Keys(bk[T].kv) ELSE {}

\* the name is the name of an index of some table, or its bucket name is the
\* bucket name of a table
NameInUse(bk, index) ==
    \/ \E T \in AllTableNames : index \in DeclaredNames(bk, T)
    \/ IsTable(bk, indices(index))

\* no index name is declared by two tables
NoSharedKeySpace ==
    \A T1, T2 \in AllTableNames :
        T1 # T2 => DeclaredNames(buckets, T1) \cap DeclaredNames(buckets, T2) = {}

\* a CreateIndex with a name in use fails with ALREADY_EXISTS, and a CreateIndex
\* that fails changes neither the store nor a handle
CreateIndexStep ==
    (last = NoCall /\ last'.op = "CreateIndex") =>
        /\ NameInUse(buckets, last'.index) => last'.err = ALREADY_EXISTS
        /\ last'.err # OK => buckets' = buckets /\ table' = table /\ second' = second

\* C29: the bucket of an index is named by the index name alone: CreateIndex
\* with a name that an index of any table has, or whose bucket name is that of
\* a table, fails with ALREADY_EXISTS; a failed CreateIndex leaves the schema
\* entries, every index bucket and the handle's index set unchanged; no two
\* tables share an index bucket.
C29_IndexNameTakenOnce ==
    [] NoSharedKeySpace /\ [][CreateIndexStep]_vars

\* CreateIndex through a handle of one table has failed on the name of an index
\* of another table
C29_Witness ==
    /\ last.op = "CreateIndex" /\ last.err = ALREADY_EXISTS
    /\ last.through = "second" /\ second.name # table.name
    /\ last.index \in DeclaredNames(buckets, table.name)
    /\ last.index \notin DeclaredNames(buckets, second.name)

----------------------------------------------------------------------------
(* C30 *)

\* the key Delete computes for index i from the record it decoded
DeleteKeyBytes(i, fields) == Encode(DeleteKey(table.indices[i], fields)).b

\* the key Put writes for the record in index i
PutKeyBytes(i, fields) == marshalKeyValue(table.indices[i], fields).key

\* C30: the key Delete computes for each other index from the decoded record is
\* byte-equal to the key Put wrote for the record in that index, under both
\* null policies and with nulls in the fields of the index, and the Delete
\* leaves no entry of the record in that index.
C30_DeleteKeyEqualsPutKey ==
    (last.op = "Delete" /\ last.err = OK /\ MatchedBefore.err = OK) =>
        \A i \in KeyedIndices \ {last.index} :
            /\ DeleteKeyBytes(i, MatchedBefore.fields) = PutKeyBytes(i, MatchedBefore.fields)
            /\ PutKeyBytes(i, MatchedBefore.fields) \notin Keys(buckets[indices(i)].kv)

====
